---------------------------- MODULE Spec2Model ----------------------------
(***************************************************************************)
(* Shadow indexing: the ShadowIndexer scheduler (services/shadowIndexer),  *)
(* the indexer worker (workers/indexer.worker), the embedding batch loop   *)
(* of GeminiService.getEmbeddings and the chunker splitTextIntoChunks.     *)
(*                                                                         *)
(* The main thread and the worker are two event loops joined by two FIFO   *)
(* message channels (Worker.postMessage in both directions).  A handler    *)
(* runs to completion; the worker's async handler gives up control only at *)
(* the await of a batch of embedContent calls.                             *)
(*                                                                         *)
(* App's side of the pipeline is its document list and its embedding       *)
(* store: the upload handler, the removal handler, the selection toggle,   *)
(* the two callbacks App registers with the indexer, and the vector search *)
(* of handleSendMessage over the chunks of the selected documents.         *)
(*                                                                         *)
(* The similarity engine (utils/vectorStore: cosineSimilarity and          *)
(* findMostRelevantChunks) and the chunker are pure functions, followed    *)
(* call by call over a small floating-point format.                        *)
(***************************************************************************)
EXTENDS Integers, Sequences, FiniteSets, TLC

(***************************************************************************)
(* Bounds of the model.                                                    *)
(***************************************************************************)
\* Number of queueDocument calls in a behaviour of Spec.
MaxDocs == 5
\* Number of queueDocument calls in a behaviour of FairSpec.
FairDocs == 4
\* Number of queueDocument calls in a behaviour of PayloadSpec.
PayloadDocs == 2
\* Number of queueDocument calls of the burst scenario (BurstSpec).
BurstDocs == 5
\* Number of queueDocument calls in a behaviour of CallbackSpec.
CallbackDocs == 2
\* Number of uploads in a behaviour of StoreSpec.
StoreDocs == 2
\* Number of queueDocument calls in a behaviour of ThrowSpec.
ThrowDocs == 5
\* Number of uploads in a behaviour of QuerySpec.
QueryDocs == 2
\* The inputs of the chunker in ChunkerSpec: texts of at most MaxTextLen
\* characters, chunkSize in 1..MaxChunkSize, overlap in 0..MaxOverlap.
MaxTextLen == 6
MaxChunkSize == 5
MaxOverlap == 3
\* The number format of the similarity engine: a binary floating-point format
\* like the IEEE-754 double of a JavaScript number, with FloatBits significand
\* bits (53 in a double) and ExpSpan binades between the smallest normal
\* number and 1 (1022 in a double).
FloatBits == 3
ExpSpan == 3
\* Vectors of the similarity engine have at most MaxDim components.
MaxDim == 2
\* The inputs of findMostRelevantChunks in SearchSpec: at most MaxChunks
\* chunks and topK in 0..MaxTopK.
MaxChunks == 4
MaxTopK == 4
\* The stand-in for the tolerance 1e-9 is two units in the last place of 1
\* (in a double, 1e-9 is some 4.5 million units in the last place of 1).
ToleranceUlps == 2
\* Stand-ins for the default arguments chunkSize = 1000 and overlap = 200 of
\* splitTextIntoChunks and for BATCH_SIZE = 100 of getEmbeddings, scaled so
\* that a document of a few characters has several chunks and batches.
ModelChunkSize == 4
ModelOverlap == 1
ModelBatchSize == 2

(***************************************************************************)
(* Program constants.                                                      *)
(***************************************************************************)
MAX_CONCURRENT == 3
\* The topK of the vector search of handleSendMessage.
ContextTopK == 15

Max(a, b) == IF a >= b THEN a ELSE b
Min(a, b) == IF a <= b THEN a ELSE b
Range(seq) == {seq[k] : k \in DOMAIN seq}

(***************************************************************************)
(* Texts are sequences of one-character strings; JavaScript indices are    *)
(* 0-based, so text[i] of the source is text[i + 1] here.                  *)
(***************************************************************************)
NL == "\n"
SP == " "

\* String.prototype.lastIndexOf(ch, fromIndex): the greatest index <= fromIndex
\* (fromIndex itself included) holding ch, or -1.
LastIndexOf(text, ch, fromIndex) ==
    LET hits == {i \in 0..Min(fromIndex, Len(text) - 1) : text[i + 1] = ch}
    IN  IF hits = {} THEN -1 ELSE CHOOSE i \in hits : \A j \in hits : j <= i

\* A slice that takes one character more than asked.
SliceInclusive(text, start, end) == SubSeq(text, start + 1, Min(end + 1, Len(text)))

\* String.prototype.slice(start, end) for 0 <= start <= end.
Slice(text, start, end) == SubSeq(text, start + 1, Min(end, Len(text)))

\* An end index that is not clamped to the length of the text.
ChunkEndNoClamp(text, startIndex, chunkSize) ==
    LET endIndex == startIndex + chunkSize
        lastNewLine == LastIndexOf(text, NL, endIndex)
        lastSpace == LastIndexOf(text, SP, endIndex)
    IN  IF endIndex < Len(text)
        THEN IF 2 * lastNewLine > 2 * startIndex + chunkSize
             THEN lastNewLine + 1
             ELSE IF 2 * lastSpace > 2 * startIndex + chunkSize
                  THEN lastSpace + 1
                  ELSE endIndex
        ELSE endIndex

\* The end index of the chunk that starts at startIndex (lines 20-37).
\* lastNewLine > startIndex + chunkSize * 0.5 is compared doubled, in integers.
ChunkEnd(text, startIndex, chunkSize) ==
    LET endIndex == startIndex + chunkSize
        lastNewLine == LastIndexOf(text, NL, endIndex)
        lastSpace == LastIndexOf(text, SP, endIndex)
    IN  IF endIndex < Len(text)
        THEN IF 2 * lastNewLine > 2 * startIndex + chunkSize
             THEN lastNewLine + 1
             ELSE IF 2 * lastSpace > 2 * startIndex + chunkSize
                  THEN lastSpace + 1
                  ELSE endIndex
        ELSE Len(text)

\* A next start one character past the place the overlap asks for.
NextStartSkipsOne(startIndex, endIndex, overlap) ==
    Max(startIndex + 1, endIndex - overlap + 1)

\* A next start that steps back by twice the overlap.
NextStartDoubleOverlap(startIndex, endIndex, overlap) ==
    Max(startIndex + 1, endIndex - 2 * overlap)

\* A next start without the guaranteed step forward.
NextStartNoProgress(startIndex, endIndex, overlap) ==
    Max(startIndex, endIndex - overlap)

\* Start of the next chunk (line 53).
NextStart(startIndex, endIndex, overlap) == Max(startIndex + 1, endIndex - overlap)

\* An id that leaves the ordinal out.
ChunkIdNoOrdinal(documentId, ordinal) == <<documentId, 0>>

\* The id of a chunk (line 42): the template `${documentId}_${chunks.length}`,
\* kept as the pair of its two parts.
ChunkId(documentId, ordinal) == <<documentId, ordinal>>

\* The while loop of splitTextIntoChunks, from startIndex with chunks so far.
RECURSIVE SplitLoop(_, _, _, _, _, _)
SplitLoop(text, documentId, chunkSize, overlap, startIndex, chunks) ==
    IF ~(startIndex < Len(text)) THEN chunks
    ELSE LET endIndex == ChunkEnd(text, startIndex, chunkSize)
             chunk == [id |-> ChunkId(documentId, Len(chunks)),
                       documentId |-> documentId,
                       content |-> Slice(text, startIndex, endIndex),
                       startIndex |-> startIndex,
                       endIndex |-> endIndex]
             pushed == Append(chunks, chunk)
         IN  IF endIndex = Len(text) THEN pushed
             ELSE SplitLoop(text, documentId, chunkSize, overlap,
                            NextStart(startIndex, endIndex, overlap), pushed)

splitTextIntoChunks(text, documentId, chunkSize, overlap) ==
    SplitLoop(text, documentId, chunkSize, overlap, 0, <<>>)


(***************************************************************************)
(* The embedding provider.  embedContent(text) is opaque: a response       *)
(* either carries the vector of its text or carries none.  Vectors are     *)
(* modelled injectively in the text, so a vector paired with the wrong     *)
(* chunk is visible.                                                       *)
(***************************************************************************)
Embed(text) == <<"vec", text>>

(***************************************************************************)
(* Documents.  A MIME type is the pair of its two parts; ids are fresh     *)
(* (App draws them at random), so the n-th queueDocument call is given     *)
(* id n.                                                                   *)
(***************************************************************************)
TextPlain == <<"text", "plain">>
ImagePng == <<"image", "png">>

\* doc.type.startsWith('image/')
StartsWithImage(type) == type[1] = "image"

EmptyText == <<>>
ShortText == <<"a", "b">>
LongText == <<"a", "b", "c", "d", "e", "f", "g", "h", "i", "j">>

DocIds == 1..Max(Max(MaxDocs, BurstDocs), Max(FairDocs, PayloadDocs))

\* The registered callbacks; Null is the empty slot.
Null == "null"
StatusCallbacks == {"f"}
DataCallbacks == {"h"}
\* The callbacks of CallbackSpec, where a second registration replaces a first.
Subscribers == {"f", "g"}
\* A status callback that may throw when it is told a terminal status.
Thrower == "t"

VARIABLES
    queue,          \* ShadowIndexer.queue: the documents waiting, head first
    activeWorkers,  \* ShadowIndexer.activeWorkers
    onStatusUpdate, \* ShadowIndexer.onStatusUpdate: the status callback slot
    onDataReady,    \* the data callback slot (setDataCallback)
    workerInbox,    \* documents posted to the worker, not yet handled by it
    mainInbox,      \* messages posted by the worker, not yet handled by the scheduler
    jobs,           \* per document: where the worker's async handler stands
    docs,           \* the documents passed to queueDocument so far, docs[n].id = n
    dispatched,     \* history: ids in the order processNext posted them
    emitted,        \* history: per document, the statuses the worker posted
    handled,        \* history: per document, the messages the scheduler handled,
                    \*   each with the callback slots as they were at that moment
                    \*   and whether the handler returned or threw
    dataCalls,      \* history: per document, the <<callback, chunks>> invocations
                    \*   of the data callback
    registered,     \* history: the argument of the latest setStatusCallback call
    escaped,        \* history: the exceptions that left worker.onmessage uncaught
    documents,      \* App's documents state: the list of [id, status,
                    \*   isSelected, indexingStatus]
    allEmbeddings,  \* App's allEmbeddings state: the embedded chunks in memory
    cloudEmbeddings, \* the persisted embedded chunks (upsertEmbeddings)
    trail,          \* history: per document, the values its indexingStatus took
    chat,           \* a call of handleSendMessage: the documents it selected,
                    \*   the chunks it passed to the search and its context
    split,          \* a call of splitTextIntoChunks run one loop iteration at a
                    \*   time: its arguments, startIndex, chunks and position
    sim,            \* a call of cosineSimilarity: its arguments and its result
    search          \* a call of findMostRelevantChunks: its arguments and result

vars == <<queue, activeWorkers, onStatusUpdate, onDataReady, workerInbox, mainInbox,
          jobs, docs, dispatched, emitted, handled, dataCalls, registered, escaped,
          documents, allEmbeddings, cloudEmbeddings, trail, chat, split, sim, search>>

\* The variables of the indexing pipeline.
indexerVars == <<queue, activeWorkers, onStatusUpdate, onDataReady, workerInbox,
                 mainInbox, jobs, docs, dispatched, emitted, handled, dataCalls,
                 registered, escaped, documents, allEmbeddings, cloudEmbeddings, trail,
                 chat>>

\* The variables of the utility functions run on their own.
utilVars == <<split, sim, search>>

\* App's store of documents and chunks.
storeVars == <<documents, allEmbeddings, cloudEmbeddings, trail, chat>>

schedVars == <<queue, activeWorkers, onStatusUpdate, onDataReady>>
histVars == <<dispatched, emitted, handled, dataCalls>>

IdleJob == [pc |-> "idle", chunks |-> <<>>, i |-> 0, embeddings |-> <<>>]

\* No call of splitTextIntoChunks is being followed.
NoSplit == [pc |-> "none"]
\* No call of cosineSimilarity, none of findMostRelevantChunks.
NoSim == [pc |-> "none"]
NoSearch == [pc |-> "none"]
\* No call of handleSendMessage is under way.
NoChat == [pc |-> "idle"]

IndexerInit ==
    /\ queue = <<>>
    /\ activeWorkers = 0
    /\ onStatusUpdate = Null
    /\ onDataReady = Null
    /\ workerInbox = <<>>
    /\ mainInbox = <<>>
    /\ jobs = [d \in DocIds |-> IdleJob]
    /\ docs = <<>>
    /\ dispatched = <<>>
    /\ emitted = [d \in DocIds |-> <<>>]
    /\ handled = [d \in DocIds |-> <<>>]
    /\ dataCalls = [d \in DocIds |-> <<>>]
    /\ registered = Null
    /\ escaped = 0
    /\ documents = <<>>
    /\ allEmbeddings = <<>>
    /\ cloudEmbeddings = {}
    /\ trail = [d \in DocIds |-> <<>>]
    /\ chat = NoChat

Init ==
    /\ IndexerInit
    /\ split = NoSplit
    /\ sim = NoSim
    /\ search = NoSearch

(***************************************************************************)
(* The scheduler (main thread).  Its routines are functions of the record  *)
(* s of its fields; s.sent collects the worker.postMessage(doc) calls.     *)
(***************************************************************************)
\* A processNext that admits while activeWorkers <= MAX_CONCURRENT.
processNextOffByOne(s) ==
    IF s.activeWorkers > MAX_CONCURRENT \/ Len(s.queue) = 0
    THEN s
    ELSE [queue |-> Tail(s.queue),
          activeWorkers |-> s.activeWorkers + 1,
          sent |-> Append(s.sent, Head(s.queue))]

\* A processNext that takes the newest document (pop instead of shift).
processNextLifo(s) ==
    IF s.activeWorkers >= MAX_CONCURRENT \/ Len(s.queue) = 0
    THEN s
    ELSE [queue |-> SubSeq(s.queue, 1, Len(s.queue) - 1),
          activeWorkers |-> s.activeWorkers + 1,
          sent |-> Append(s.sent, s.queue[Len(s.queue)])]

\* A processNext that posts the head of the queue and leaves it queued.
processNextNoShift(s) ==
    IF s.activeWorkers >= MAX_CONCURRENT \/ Len(s.queue) = 0
    THEN s
    ELSE [queue |-> s.queue,
          activeWorkers |-> s.activeWorkers + 1,
          sent |-> Append(s.sent, Head(s.queue))]

\* A processNext that runs one document at a time.
processNextSerial(s) ==
    IF s.activeWorkers >= 1 \/ Len(s.queue) = 0
    THEN s
    ELSE [queue |-> Tail(s.queue),
          activeWorkers |-> s.activeWorkers + 1,
          sent |-> Append(s.sent, Head(s.queue))]

processNext(s) ==
    IF s.activeWorkers >= MAX_CONCURRENT \/ Len(s.queue) = 0
    THEN s
    ELSE [queue |-> Tail(s.queue),
          activeWorkers |-> s.activeWorkers + 1,
          sent |-> Append(s.sent, Head(s.queue))]

\* A queueDocument that leaves admission to the next terminal status.
queueDocumentNoAdmission(s, doc) ==
    IF StartsWithImage(doc.type)
    THEN s
    ELSE [s EXCEPT !.queue = Append(s.queue, doc)]

\* A queueDocument that puts the document at the head of the queue (unshift).
queueDocumentAtHead(s, doc) ==
    IF StartsWithImage(doc.type)
    THEN s
    ELSE processNext([s EXCEPT !.queue = <<doc>> \o s.queue])

\* A queueDocument without the image check.
queueDocumentNoTypeCheck(s, doc) ==
    processNext([s EXCEPT !.queue = Append(s.queue, doc)])

queueDocument(s, doc) ==
    IF StartsWithImage(doc.type)
    THEN s
    ELSE processNext([s EXCEPT !.queue = Append(s.queue, doc)])

\* A release test that forgets 'failed'.
ReleasesSlotCompletedOnly(status) == status = "completed"

\* A release test that takes every status message for a terminal one.
ReleasesSlotAnyStatus(status) == TRUE

\* status === 'completed' || status === 'failed'
ReleasesSlot(status) == status = "completed" \/ status = "failed"

\* A handler that releases the slot and leaves admission to the next
\* queueDocument call.
onTerminalNoPump(s, status) ==
    IF ReleasesSlot(status)
    THEN [s EXCEPT !.activeWorkers = s.activeWorkers - 1]
    ELSE s

\* A handler that releases two slots for a terminal status.
onTerminalDoubleRelease(s, status) ==
    IF ReleasesSlot(status)
    THEN processNext([s EXCEPT !.activeWorkers = s.activeWorkers - 2])
    ELSE s

\* The tail of worker.onmessage: a terminal status releases the slot and
\* re-runs admission.
onTerminal(s, status) ==
    IF ReleasesSlot(status)
    THEN processNext([s EXCEPT !.activeWorkers = s.activeWorkers - 1])
    ELSE s

\* Whether the data callback is invoked for a received message: only on
\* 'completed' with a non-empty chunk payload, and only with a callback set.
DataCallbackFires(msg) ==
    /\ msg.status = "completed"
    /\ msg.hasChunks
    /\ Len(msg.chunks) > 0
    /\ onDataReady # Null

(***************************************************************************)
(* App's handlers on its store: the upload handler, the two callbacks it   *)
(* registers and handleRemoveDoc.  The user is the admin throughout (only  *)
(* the admin uploads and removes).                                         *)
(***************************************************************************)
Listed(docId) == \E k \in DOMAIN documents : documents[k].id = docId

\* A status update that leaves the document as it is.
SetIndexingStatusIgnored(ds, docId, status) == ds

\* prev.map(d => d.id === docId ? { ...d, indexingStatus: status } : d)
SetIndexingStatus(ds, docId, status) ==
    [k \in 1..Len(ds) |->
        IF ds[k].id = docId THEN [ds[k] EXCEPT !.indexingStatus = status] ELSE ds[k]]

\* setDocuments with that update; the trail records the value a listed document
\* is given.
AssignStatus(ds, docId, status) ==
    /\ documents' = SetIndexingStatus(ds, docId, status)
    /\ trail' = IF \E k \in DOMAIN ds : ds[k].id = docId
                THEN [trail EXCEPT ![docId] = Append(@, status)]
                ELSE trail

\* The upload handler up to its call of queueDocument: the document joins the
\* list and, unless it is an image, is marked 'pending'.
Upload(doc) ==
    LET added == Append(documents, [id |-> doc.id, status |-> "ready",
                                    isSelected |-> TRUE, indexingStatus |-> "none"])
    IN  IF StartsWithImage(doc.type)
        THEN documents' = added /\ UNCHANGED trail
        ELSE AssignStatus(added, doc.id, "pending")

\* The call this.onStatusUpdate(docId, status): App's callback sets the
\* indexingStatus of the document; another subscriber leaves the store alone.
StatusCallbackRuns(docId, status) ==
    IF onStatusUpdate \in StatusCallbacks
    THEN AssignStatus(documents, docId, status)
    ELSE UNCHANGED <<documents, trail>>

\* What the call this.onStatusUpdate(docId, status) may do: return, or, for
\* the thrower told a terminal status, throw.
CallbackOutcomes(callback, status) ==
    IF callback = Thrower /\ status # "indexing" THEN {"returns", "throws"} ELSE {"returns"}

\* The data callback: upsertEmbeddings(chunks), then the chunks join
\* allEmbeddings.
DataCallbackRuns(msg) ==
    IF DataCallbackFires(msg)
    THEN /\ dataCalls' = [dataCalls EXCEPT ![msg.docId] = Append(@, <<onDataReady, msg.chunks>>)]
         /\ cloudEmbeddings' = cloudEmbeddings \cup Range(msg.chunks)
         /\ allEmbeddings' = allEmbeddings \o msg.chunks
    ELSE UNCHANGED <<dataCalls, allEmbeddings, cloudEmbeddings>>

Sched == [queue |-> queue, activeWorkers |-> activeWorkers, sent |-> <<>>]

Ids(ds) == [k \in 1..Len(ds) |-> ds[k].id]

\* Installs the scheduler fields of s and posts what it sent to the worker.
Commit(s) ==
    /\ queue' = s.queue
    /\ activeWorkers' = s.activeWorkers
    /\ workerInbox' = workerInbox \o s.sent
    /\ dispatched' = dispatched \o Ids(s.sent)

\* setStatusCallback and setDataCallback on the callback slots.
\* A setStatusCallback that keeps the first callback registered.
SetStatusCallbackFirstWins(callback) ==
    /\ onStatusUpdate' = IF onStatusUpdate = Null THEN callback ELSE onStatusUpdate
    /\ registered' = callback

SetStatusCallback(callback) ==
    /\ onStatusUpdate' = callback
    /\ registered' = callback

SetDataCallback(callback) == onDataReady' = callback

\* App's shadow indexing integration effect: it registers both callbacks.
RegisterCallbacks(statusCallback, dataCallback) ==
    /\ SetStatusCallback(statusCallback)
    /\ SetDataCallback(dataCallback)
    /\ UNCHANGED <<utilVars, storeVars, escaped>>
    /\ UNCHANGED <<queue, activeWorkers, workerInbox, mainInbox, jobs, docs, histVars>>

QueueDocument(type, content, bound) ==
    /\ Len(docs) < bound
    /\ LET doc == [id |-> Len(docs) + 1, type |-> type, content |-> content]
       IN  /\ docs' = Append(docs, doc)
           /\ Upload(doc)
           /\ Commit(queueDocument(Sched, doc))
    /\ UNCHANGED <<utilVars, allEmbeddings, cloudEmbeddings, chat, escaped>>
    /\ UNCHANGED <<onStatusUpdate, onDataReady, registered, mainInbox, jobs, emitted,
                   handled, dataCalls>>

\* handleRemoveDoc(id): the document leaves the list, its chunks leave
\* allEmbeddings and the persisted set.
RemoveDoc(id) ==
    /\ Listed(id)
    /\ documents' = SelectSeq(documents, LAMBDA d : d.id # id)
    /\ allEmbeddings' = SelectSeq(allEmbeddings, LAMBDA e : e.documentId # id)
    /\ cloudEmbeddings' = {e \in cloudEmbeddings : e.documentId # id}
    /\ UNCHANGED <<utilVars, trail, chat, escaped>>
    /\ UNCHANGED <<schedVars, registered, workerInbox, mainInbox, jobs, docs, histVars>>

\* onToggleDocSelection(id): the isSelected flag of the document flips.
ToggleDocSelection(id) ==
    /\ Listed(id)
    /\ documents' = [k \in 1..Len(documents) |->
                        IF documents[k].id = id
                        THEN [documents[k] EXCEPT !.isSelected = ~@]
                        ELSE documents[k]]
    /\ UNCHANGED <<utilVars, allEmbeddings, cloudEmbeddings, trail, chat, escaped>>
    /\ UNCHANGED <<schedVars, registered, workerInbox, mainInbox, jobs, docs, histVars>>

\* A selection that takes every listed document.
SelectedDocsNoFilter(ds) == ds

\* currentDocs.filter(doc => doc.isSelected && doc.status === 'ready')
SelectedDocs(ds) == SelectSeq(ds, LAMBDA d : d.isSelected /\ d.status = "ready")

\* allChunks.filter(c => selectedDocIds.has(c.documentId))
RelevantChunks(allChunks, selectedDocIds) ==
    {c \in allChunks : c.documentId \in selectedDocIds}

\* handleSendMessage up to its first await: it takes the documents and the
\* embeddings of the render it belongs to and selects the documents; without
\* a selected text document there is no vector search.
SendMessage ==
    /\ chat.pc \in {"idle", "answered"}
    /\ LET selectedDocs == SelectedDocs(documents)
           call == [pc |-> "embedding",
                    documents |-> documents,
                    allEmbeddings |-> Range(allEmbeddings),
                    selectedDocIds |-> {selectedDocs[k].id : k \in DOMAIN selectedDocs},
                    searched |-> FALSE,
                    relevantChunks |-> {},
                    context |-> {}]
       IN  IF \E k \in DOMAIN selectedDocs : ~StartsWithImage(docs[selectedDocs[k].id].type)
           THEN chat' = call
           ELSE chat' = [call EXCEPT !.pc = "answered"]
    /\ UNCHANGED <<utilVars, documents, allEmbeddings, cloudEmbeddings, trail, escaped>>
    /\ UNCHANGED <<schedVars, registered, workerInbox, mainInbox, jobs, docs, histVars>>

\* The query was embedded: the chunks of the selected documents, taken from
\* the embeddings in memory or from those loaded from the store at this
\* moment, go to findMostRelevantChunks when there are any, and the context
\* is made of the chunks it returns.
VectorSearch ==
    /\ chat.pc = "embedding"
    /\ \E allChunks \in {chat.allEmbeddings, cloudEmbeddings} :
          LET relevantChunks == RelevantChunks(allChunks, chat.selectedDocIds)
              returned == Min(ContextTopK, Cardinality(relevantChunks))
          IN  \E topChunks \in SUBSET relevantChunks :
                 /\ Cardinality(topChunks) = returned
                 /\ chat' = [chat EXCEPT !.pc = "answered",
                                         !.searched = relevantChunks # {},
                                         !.relevantChunks = relevantChunks,
                                         !.context = topChunks]
    /\ UNCHANGED <<utilVars, documents, allEmbeddings, cloudEmbeddings, trail, escaped>>
    /\ UNCHANGED <<schedVars, registered, workerInbox, mainInbox, jobs, docs, histVars>>

\* The query was not embedded (getEmbeddings threw or returned nothing): the
\* answer is made without a vector search.
QueryNotEmbedded ==
    /\ chat.pc = "embedding"
    /\ chat' = [chat EXCEPT !.pc = "answered"]
    /\ UNCHANGED <<utilVars, documents, allEmbeddings, cloudEmbeddings, trail, escaped>>
    /\ UNCHANGED <<schedVars, registered, workerInbox, mainInbox, jobs, docs, histVars>>

\* this.worker.onmessage of the ShadowIndexer, on the oldest undelivered message:
\* the status callback, the data callback, then the release of the slot.  The
\* handler has no try: when the status callback throws, the exception leaves
\* the handler at that call and the rest does not run.
MainOnMessage ==
    /\ mainInbox # <<>>
    /\ LET msg == Head(mainInbox)
           d == msg.docId
       IN  /\ mainInbox' = Tail(mainInbox)
           /\ \E outcome \in CallbackOutcomes(onStatusUpdate, msg.status) :
                 /\ handled' = [handled EXCEPT ![d] =
                                  Append(@, [status |-> msg.status,
                                             callback |-> onStatusUpdate,
                                             dataCallback |-> onDataReady,
                                             outcome |-> outcome])]
                 /\ IF outcome = "throws"
                    THEN /\ escaped' = escaped + 1
                         /\ UNCHANGED <<queue, activeWorkers, workerInbox, dispatched,
                                        dataCalls, storeVars>>
                    ELSE /\ StatusCallbackRuns(d, msg.status)
                         /\ DataCallbackRuns(msg)
                         /\ Commit(onTerminal(Sched, msg.status))
                         /\ UNCHANGED <<escaped, chat>>
    /\ UNCHANGED utilVars
    /\ UNCHANGED <<onStatusUpdate, onDataReady, registered, jobs, docs, emitted>>

(***************************************************************************)
(* The worker.                                                             *)
(***************************************************************************)
StatusMsg(docId, status) ==
    [type |-> "status", docId |-> docId, status |-> status,
     hasChunks |-> FALSE, chunks |-> <<>>]

\* A 'completed' message that leaves the chunks out.
CompletedMsgNoData(docId, chunks) == StatusMsg(docId, "completed")

\* The 'completed' message with its data (lines 32-37).
CompletedMsg(docId, chunks) ==
    [type |-> "status", docId |-> docId, status |-> "completed",
     hasChunks |-> TRUE, chunks |-> chunks]

\* chunks.forEach((chunk, i) => { if (embeddings[i]) push({...chunk, embedding}) })
RECURSIVE ZipLoop(_, _, _, _)
ZipLoop(chunks, embeddings, k, acc) ==
    IF k > Len(chunks) THEN acc
    ELSE ZipLoop(chunks, embeddings, k + 1,
                 IF k <= Len(embeddings)
                 THEN Append(acc, [id |-> chunks[k].id,
                                   documentId |-> chunks[k].documentId,
                                   content |-> chunks[k].content,
                                   startIndex |-> chunks[k].startIndex,
                                   endIndex |-> chunks[k].endIndex,
                                   embedding |-> embeddings[k]])
                 ELSE acc)

chunksToEmbed(chunks, embeddings) == ZipLoop(chunks, embeddings, 1, <<>>)

\* A start of the handler that announces 'indexing' only when there are chunks.
StartMsgsLateIndexing(d, chunks) ==
    IF Len(chunks) > 0
    THEN <<StatusMsg(d, "indexing")>>
    ELSE <<StatusMsg(d, "completed")>>

\* A start of the handler that posts 'completed' with an empty chunk array
\* for a document without chunks.
StartMsgsEmptyPayload(d, chunks) ==
    IF Len(chunks) > 0
    THEN <<StatusMsg(d, "indexing")>>
    ELSE <<StatusMsg(d, "indexing"), CompletedMsg(d, <<>>)>>

\* What the handler posts before its first await (lines 14-40): 'indexing', and
\* for a document without chunks 'completed' with no data at once.
StartMsgs(d, chunks) ==
    IF Len(chunks) > 0
    THEN <<StatusMsg(d, "indexing")>>
    ELSE <<StatusMsg(d, "indexing"), StatusMsg(d, "completed")>>

\* A catch that delivers the vectors of the batches that had succeeded.
RejectMsgPartialCredit(d, job) ==
    CompletedMsg(d, chunksToEmbed(job.chunks, job.embeddings))

\* What the catch posts when a batch rejects (lines 42-46).
RejectMsg(d, job) == StatusMsg(d, "failed")

Statuses(msgs) == [k \in 1..Len(msgs) |-> msgs[k].status]

\* ctx.onmessage up to its first await: 'indexing', the split, and either
\* 'completed' without data (no chunks) or the call of getEmbeddings, which
\* starts the first batch and awaits it.
WorkerOnMessage ==
    /\ workerInbox # <<>>
    /\ LET doc == Head(workerInbox)
           d == doc.id
           chunks == splitTextIntoChunks(doc.content, d, ModelChunkSize, ModelOverlap)
           msgs == StartMsgs(d, chunks)
       IN  /\ workerInbox' = Tail(workerInbox)
           /\ mainInbox' = mainInbox \o msgs
           /\ emitted' = [emitted EXCEPT ![d] = @ \o Statuses(msgs)]
           /\ jobs' = [jobs EXCEPT ![d] =
                          IF Len(chunks) > 0
                          THEN [pc |-> "awaiting", chunks |-> chunks, i |-> 0,
                                embeddings |-> <<>>]
                          ELSE [IdleJob EXCEPT !.pc = "empty"]]
    /\ UNCHANGED <<utilVars, storeVars, escaped>>
    /\ UNCHANGED <<schedVars, registered, docs, dispatched, handled, dataCalls>>

\* The texts of the batch awaited by job j: texts.slice(i, i + BATCH_SIZE).
BatchTexts(j) ==
    [k \in 1..(Min(j.i + ModelBatchSize, Len(j.chunks)) - j.i) |-> j.chunks[j.i + k].content]

\* responses.forEach: the vectors of the responses that carry one, in order.
RECURSIVE PushLoop(_, _, _, _)
PushLoop(batch, missing, k, acc) ==
    IF k > Len(batch) THEN acc
    ELSE PushLoop(batch, missing, k + 1,
                  IF k \in missing THEN acc ELSE Append(acc, Embed(batch[k])))

\* Promise.all of the awaited batch of document d resolves; the responses at the
\* positions in missing carry no embedding.  After the last batch getEmbeddings
\* returns and the worker posts 'completed' with the zipped chunks.
BatchResolves(d, missing) ==
    /\ jobs[d].pc = "awaiting"
    /\ LET j == jobs[d]
           batch == BatchTexts(j)
           embeddings == PushLoop(batch, missing, 1, j.embeddings)
           i == j.i + ModelBatchSize
           msg == CompletedMsg(d, chunksToEmbed(j.chunks, embeddings))
       IN  /\ missing \subseteq 1..Len(batch)
           /\ IF i < Len(j.chunks)
              THEN /\ jobs' = [jobs EXCEPT ![d] = [j EXCEPT !.i = i,
                                                            !.embeddings = embeddings]]
                   /\ UNCHANGED <<mainInbox, emitted>>
              ELSE /\ jobs' = [jobs EXCEPT ![d] = [j EXCEPT !.pc = "returned",
                                                            !.embeddings = embeddings]]
                   /\ mainInbox' = Append(mainInbox, msg)
                   /\ emitted' = [emitted EXCEPT ![d] = Append(@, msg.status)]
    /\ UNCHANGED <<utilVars, storeVars, escaped>>
    /\ UNCHANGED <<schedVars, registered, workerInbox, docs, dispatched, handled, dataCalls>>

\* A worker that gives the slot back itself when its call fails.
BatchRejectsReleasesSlot(d) ==
    /\ jobs[d].pc = "awaiting"
    /\ LET msg == RejectMsg(d, jobs[d])
       IN  /\ jobs' = [jobs EXCEPT ![d].pc = "threw"]
           /\ mainInbox' = Append(mainInbox, msg)
           /\ emitted' = [emitted EXCEPT ![d] = Append(@, msg.status)]
    /\ activeWorkers' = activeWorkers - 1
    /\ UNCHANGED <<utilVars, storeVars, escaped>>
    /\ UNCHANGED <<queue, onStatusUpdate, onDataReady, registered, workerInbox, docs,
                   dispatched, handled, dataCalls>>

\* Promise.all of the awaited batch rejects: getEmbeddings rethrows and the
\* worker's catch posts its message.
BatchRejects(d) ==
    /\ jobs[d].pc = "awaiting"
    /\ LET msg == RejectMsg(d, jobs[d])
       IN  /\ jobs' = [jobs EXCEPT ![d].pc = "threw"]
           /\ mainInbox' = Append(mainInbox, msg)
           /\ emitted' = [emitted EXCEPT ![d] = Append(@, msg.status)]
    /\ UNCHANGED <<utilVars, storeVars, escaped>>
    /\ UNCHANGED <<schedVars, registered, workerInbox, docs, dispatched, handled, dataCalls>>

\* An await with a timeout: the batch that never settles is given up and the
\* worker posts 'failed'.
BatchStallsWithTimeout(d) ==
    /\ jobs[d].pc = "awaiting"
    /\ jobs' = [jobs EXCEPT ![d].pc = "stalled"]
    /\ mainInbox' = Append(mainInbox, StatusMsg(d, "failed"))
    /\ emitted' = [emitted EXCEPT ![d] = Append(@, "failed")]
    /\ UNCHANGED <<utilVars, storeVars, escaped>>
    /\ UNCHANGED <<schedVars, registered, workerInbox, docs, dispatched, handled, dataCalls>>

\* The awaited batch never settles: there is no timeout, the handler stays at
\* its await for good.
BatchStalls(d) ==
    /\ jobs[d].pc = "awaiting"
    /\ jobs' = [jobs EXCEPT ![d].pc = "stalled"]
    /\ UNCHANGED <<utilVars, storeVars, escaped>>
    /\ UNCHANGED <<schedVars, registered, workerInbox, mainInbox, docs, histVars>>

\* The subsets of a batch's responses that may come back without a vector.
AllVectors == {{}}
AnyMissing == SUBSET (1..ModelBatchSize)

ProviderSettles(d, missingSets) ==
    \/ \E missing \in missingSets : BatchResolves(d, missing)
    \/ BatchRejects(d)

\* A call of shadowIndexer.setStatusCallback alone.
StatusRegistration(callback) ==
    /\ SetStatusCallback(callback)
    /\ UNCHANGED <<utilVars, storeVars, escaped>>
    /\ UNCHANGED <<queue, activeWorkers, onDataReady, workerInbox, mainInbox, jobs, docs,
                   histVars>>

Register == \E cb \in StatusCallbacks, dcb \in DataCallbacks : RegisterCallbacks(cb, dcb)

\* The event loops of the worker and of the main thread, and the provider.
\* A batch that never settles is, in a safety property, a batch still awaited:
\* BatchStalls is a step of FairSpec only, where settling is otherwise forced.
Pipeline(missingSets) ==
    \/ MainOnMessage
    \/ WorkerOnMessage
    \/ \E d \in DocIds : ProviderSettles(d, missingSets)

(***************************************************************************)
(* Spec: the scheduler under any interleaving of queueDocument calls,      *)
(* worker steps and provider outcomes.  Documents are images or texts of   *)
(* at most one chunk, every response of the provider carries its vector,   *)
(* and the callbacks are registered, if at all, when App mounts, before    *)
(* the first upload.                                                       *)
(***************************************************************************)
Next ==
    \/ docs = <<>> /\ Register
    \/ \E content \in {EmptyText, ShortText} : QueueDocument(TextPlain, content, MaxDocs)
    \/ QueueDocument(ImagePng, ShortText, MaxDocs)
    \/ Pipeline(AllVectors)

Spec == Init /\ [][Next]_vars

(***************************************************************************)
(* FairSpec: the scheduler with the scheduling the two event loops         *)
(* guarantee: a posted message is eventually handled, and a batch that has *)
(* not stalled eventually resolves or rejects.  queueDocument calls and    *)
(* stalls are the environment's choice and carry no fairness.  The         *)
(* callbacks, which play no part in admission, stay unregistered.          *)
(***************************************************************************)
FairNext ==
    \/ \E content \in {EmptyText, ShortText} : QueueDocument(TextPlain, content, FairDocs)
    \/ QueueDocument(ImagePng, ShortText, FairDocs)
    \/ Pipeline(AllVectors)
    \/ \E d \in DocIds : BatchStalls(d)

Fairness ==
    /\ WF_vars(MainOnMessage)
    /\ WF_vars(WorkerOnMessage)
    /\ \A d \in DocIds : WF_vars(ProviderSettles(d, AllVectors))

FairSpec == Init /\ [][FairNext]_vars /\ Fairness

(***************************************************************************)
(* PayloadSpec: the worker and the callbacks in detail, for a few text     *)
(* documents of zero, one or several chunks (several batches); responses   *)
(* may lack their vector and the callbacks may be registered at any time.  *)
(***************************************************************************)
PayloadNext ==
    \/ Register
    \/ \E content \in {EmptyText, ShortText, LongText} :
          QueueDocument(TextPlain, content, PayloadDocs)
    \/ Pipeline(AnyMissing)

PayloadSpec == Init /\ [][PayloadNext]_vars

(***************************************************************************)
(* BurstSpec: the scenario of BurstDocs text documents queued in one       *)
(* synchronous burst (one task of the main thread, so no message is        *)
(* handled in between), with the callbacks registered beforehand.          *)
(***************************************************************************)
BurstNext ==
    \/ docs = <<>> /\ onStatusUpdate = Null /\ Register
    \/ /\ onStatusUpdate # Null
       /\ \E content \in {EmptyText, ShortText} : QueueDocument(TextPlain, content, BurstDocs)
    \/ Len(docs) = BurstDocs /\ Pipeline(AllVectors)

BurstSpec == Init /\ [][BurstNext]_vars

(***************************************************************************)
(* CallbackSpec: the status callback slot.  setStatusCallback is called    *)
(* with either of two callbacks at any time, before, between and after     *)
(* the messages of a few text documents.                                   *)
(***************************************************************************)
CallbackNext ==
    \/ \E cb \in Subscribers : StatusRegistration(cb)
    \/ \E content \in {EmptyText, ShortText} :
          QueueDocument(TextPlain, content, CallbackDocs)
    \/ Pipeline(AllVectors)

CallbackSpec == Init /\ [][CallbackNext]_vars

(***************************************************************************)
(* StoreSpec: App's store of documents and chunks.  The callbacks are      *)
(* registered when App mounts; the admin uploads a few text documents and  *)
(* removes listed documents at any time, also while they are indexed.      *)
(***************************************************************************)
StoreNext ==
    \/ docs = <<>> /\ onStatusUpdate = Null /\ Register
    \/ /\ onStatusUpdate # Null
       /\ \E content \in {EmptyText, ShortText} : QueueDocument(TextPlain, content, StoreDocs)
    \/ \E id \in DocIds : RemoveDoc(id)
    \/ Pipeline(AllVectors)

StoreSpec == Init /\ [][StoreNext]_vars

(***************************************************************************)
(* QuerySpec: queries against App's store.  As in StoreSpec the admin      *)
(* uploads and removes text documents; the user also selects and           *)
(* deselects documents and sends messages, at any time, also while a       *)
(* message is waiting for the embedding of its query.  The provider        *)
(* answers every call of the indexer with all its vectors: a document      *)
(* whose indexing fails leaves no chunk to rank.                           *)
(***************************************************************************)
QueryNext ==
    \/ docs = <<>> /\ onStatusUpdate = Null /\ Register
    \/ /\ onStatusUpdate # Null
       /\ QueueDocument(TextPlain, ShortText, QueryDocs)
    \/ \E id \in DocIds : RemoveDoc(id)
    \/ \E id \in DocIds : ToggleDocSelection(id)
    \/ SendMessage
    \/ VectorSearch
    \/ QueryNotEmbedded
    \/ MainOnMessage
    \/ WorkerOnMessage
    \/ \E d \in DocIds : BatchResolves(d, {})

QuerySpec == Init /\ [][QueryNext]_vars

(***************************************************************************)
(* ThrowSpec: the scheduler with any subscriber.  The status callback      *)
(* registered before the first upload is App's or one that may throw when  *)
(* told a terminal status; the documents are texts of one chunk.           *)
(***************************************************************************)
ThrowNext ==
    \/ docs = <<>> /\ \E cb \in StatusCallbacks \cup {Thrower} : StatusRegistration(cb)
    \/ QueueDocument(TextPlain, ShortText, ThrowDocs)
    \/ Pipeline(AllVectors)

ThrowSpec == Init /\ [][ThrowNext]_vars

(***************************************************************************)
(* ChunkerSpec: splitTextIntoChunks on its own.  Init draws the text (over *)
(* a letter, the space and the newline), chunkSize and overlap; SplitStep  *)
(* is one test of the while condition with one iteration of its body.      *)
(* A started call runs on, hence the weak fairness of SplitStep.           *)
(***************************************************************************)
Alphabet == {"a", SP, NL}

RECURSIVE TextsOfLen(_)
TextsOfLen(n) ==
    IF n = 0 THEN {<<>>}
    ELSE {Append(t, ch) : t \in TextsOfLen(n - 1), ch \in Alphabet}

Texts == UNION {TextsOfLen(n) : n \in 0..MaxTextLen}

\* The documentId argument of the call followed.
SplitDocId == 1

ChunkerInit ==
    /\ IndexerInit
    /\ \E text \in Texts, chunkSize \in 1..MaxChunkSize, overlap \in 0..MaxOverlap :
          split = [pc |-> "while", text |-> text, documentId |-> SplitDocId,
                   chunkSize |-> chunkSize, overlap |-> overlap,
                   startIndex |-> 0, chunks |-> <<>>]
    /\ sim = NoSim
    /\ search = NoSearch

SplitStep ==
    /\ split.pc = "while"
    /\ IF ~(split.startIndex < Len(split.text))
       THEN split' = [split EXCEPT !.pc = "returned"]
       ELSE LET endIndex == ChunkEnd(split.text, split.startIndex, split.chunkSize)
                chunk == [id |-> ChunkId(split.documentId, Len(split.chunks)),
                          documentId |-> split.documentId,
                          content |-> Slice(split.text, split.startIndex, endIndex),
                          startIndex |-> split.startIndex,
                          endIndex |-> endIndex]
                pushed == Append(split.chunks, chunk)
            IN  IF endIndex = Len(split.text)
                THEN split' = [split EXCEPT !.chunks = pushed, !.pc = "returned"]
                ELSE split' = [split EXCEPT
                                 !.chunks = pushed,
                                 !.startIndex = NextStart(split.startIndex, endIndex,
                                                          split.overlap)]
    /\ UNCHANGED <<indexerVars, sim, search>>

ChunkerNext == SplitStep

ChunkerSpec == ChunkerInit /\ [][ChunkerNext]_vars /\ WF_vars(SplitStep)

(***************************************************************************)
(* JavaScript numbers.  A finite number is the integer n of its multiples  *)
(* of the smallest positive number of the format; Infinity, -Infinity and  *)
(* NaN are values of their own.  Every operation rounds its exact result   *)
(* to the nearest number of the format, ties to even; a magnitude below    *)
(* half the smallest number rounds to 0 and one beyond the largest number  *)
(* becomes Infinity.  0 and -0 are not told apart (no operation of the     *)
(* similarity engine does).                                                *)
(***************************************************************************)
Fin(n) == [kind |-> "finite", n |-> n]
Infinity(sign) == [kind |-> "infinity", n |-> sign]
NaN == [kind |-> "nan", n |-> 0]
Zero == Fin(0)

Abs(n) == IF n < 0 THEN -n ELSE n
Sign(n) == IF n < 0 THEN -1 ELSE IF n > 0 THEN 1 ELSE 0

\* 1.0, the smallest normal number and the largest number, in units.
OneUnits == 2 ^ (FloatBits - 1 + ExpSpan)
MinNormal == 2 ^ (FloatBits - 1)
MaxFinite == (2 ^ FloatBits - 1) * 2 ^ (2 * ExpSpan + 1)

\* The binade of a magnitude whose integer part is q: the spacing of the
\* format there is 2 ^ ShiftOf(q, 0) units.
RECURSIVE ShiftOf(_, _)
ShiftOf(q, j) == IF q < 2 ^ (FloatBits + j) THEN j ELSE ShiftOf(q, j + 1)

\* num / den units (num >= 0, den > 0) rounded to the format, exponent unbounded.
RoundRatio(num, den) ==
    LET step == 2 ^ ShiftOf(num \div den, 0)
        k == num \div (den * step)
        twiceRest == 2 * (num - k * den * step)
        up == twiceRest > den * step \/ (twiceRest = den * step /\ k % 2 = 1)
    IN  (IF up THEN k + 1 ELSE k) * step

\* The integer part of the square root of x, by bisection of lo..hi, where
\* lo * lo <= x < hi * hi.
RECURSIVE IsqrtBetween(_, _, _)
IsqrtBetween(x, lo, hi) ==
    IF hi - lo <= 1 THEN lo
    ELSE LET mid == (lo + hi) \div 2
         IN  IF mid * mid <= x THEN IsqrtBetween(x, mid, hi) ELSE IsqrtBetween(x, lo, mid)

Isqrt(x) == IsqrtBetween(x, 0, Min(x, 46339) + 1)

\* The square root of x square units, in units, rounded to the format.
RoundSqrt(x) ==
    LET step == 2 ^ ShiftOf(Isqrt(x), 0)
        k == Isqrt(x \div (step * step))
        mid == (2 * k + 1) * (2 * k + 1) * step * step
        up == 4 * x > mid \/ (4 * x = mid /\ k % 2 = 1)
    IN  (IF up THEN k + 1 ELSE k) * step

\* The number of sign `sign` and rounded magnitude mag units.
Number(sign, mag) == IF mag > MaxFinite THEN Infinity(sign) ELSE Fin(sign * mag)

\* x * y
Mul(x, y) ==
    IF x.kind = "nan" \/ y.kind = "nan" THEN NaN
    ELSE IF x.kind = "infinity" \/ y.kind = "infinity"
         THEN IF x.n = 0 \/ y.n = 0 THEN NaN ELSE Infinity(Sign(x.n) * Sign(y.n))
         ELSE Number(Sign(x.n) * Sign(y.n), RoundRatio(Abs(x.n) * Abs(y.n), OneUnits))

\* x + y
Add(x, y) ==
    IF x.kind = "nan" \/ y.kind = "nan" THEN NaN
    ELSE IF x.kind = "infinity" /\ y.kind = "infinity"
         THEN IF x.n = y.n THEN x ELSE NaN
         ELSE IF x.kind = "infinity" THEN x
         ELSE IF y.kind = "infinity" THEN y
         ELSE Number(Sign(x.n + y.n), RoundRatio(Abs(x.n + y.n), 1))

\* Math.sqrt(x)
Sqrt(x) ==
    IF x.kind = "nan" \/ x.n < 0 THEN NaN
    ELSE IF x.kind = "infinity" THEN x
    ELSE Number(1, RoundSqrt(x.n * OneUnits))

\* x / y
Div(x, y) ==
    IF x.kind = "nan" \/ y.kind = "nan" THEN NaN
    ELSE IF x.kind = "infinity"
         THEN IF y.kind = "infinity" THEN NaN
              ELSE Infinity(x.n * (IF y.n < 0 THEN -1 ELSE 1))
         ELSE IF y.kind = "infinity" THEN Zero
         ELSE IF y.n = 0
              THEN IF x.n = 0 THEN NaN ELSE Infinity(Sign(x.n))
              ELSE Number(Sign(x.n) * Sign(y.n),
                          RoundRatio(Abs(x.n) * OneUnits, Abs(y.n)))

\* x === 0
IsZero(x) == x.kind = "finite" /\ x.n = 0

(***************************************************************************)
(* The similarity engine (utils/vectorStore).                              *)
(***************************************************************************)
\* The sentinel -1 of a dimension mismatch.
MinusOne == Fin(-OneUnits)

\* The for loop of cosineSimilarity from index i (1-based), with the sums so far.
RECURSIVE CosineLoop(_, _, _, _)
CosineLoop(vecA, vecB, i, acc) ==
    IF i > Len(vecA) THEN acc
    ELSE CosineLoop(vecA, vecB, i + 1,
                    [dotProduct |-> Add(acc.dotProduct, Mul(vecA[i], vecB[i])),
                     normA |-> Add(acc.normA, Mul(vecA[i], vecA[i])),
                     normB |-> Add(acc.normB, Mul(vecB[i], vecB[i]))])

\* dotProduct, normA and normB after the loop (lines 16-24).
Sums(vecA, vecB) ==
    CosineLoop(vecA, vecB, 1, [dotProduct |-> Zero, normA |-> Zero, normB |-> Zero])

\* Math.sqrt(normA) * Math.sqrt(normB)
Divisor(sums) == Mul(Sqrt(sums.normA), Sqrt(sums.normB))

\* Every component of vec is 0.
AllZero(vec) == \A i \in DOMAIN vec : IsZero(vec[i])

\* A cosineSimilarity that tests for a zero vector before it compares the
\* lengths.
cosineSimilarityZeroFirst(vecA, vecB) ==
    IF AllZero(vecA) \/ AllZero(vecB) THEN Zero
    ELSE IF Len(vecA) # Len(vecB) THEN MinusOne
    ELSE LET sums == Sums(vecA, vecB)
         IN  IF IsZero(sums.normA) \/ IsZero(sums.normB) THEN Zero
             ELSE Div(sums.dotProduct, Divisor(sums))

\* A cosineSimilarity without the test for a zero norm.
cosineSimilarityNoZeroTest(vecA, vecB) ==
    IF Len(vecA) # Len(vecB) THEN MinusOne
    ELSE LET sums == Sums(vecA, vecB)
         IN  Div(sums.dotProduct, Divisor(sums))

cosineSimilarity(vecA, vecB) ==
    IF Len(vecA) # Len(vecB) THEN MinusOne
    ELSE LET sums == Sums(vecA, vecB)
         IN  IF IsZero(sums.normA) \/ IsZero(sums.normB) THEN Zero
             ELSE Div(sums.dotProduct, Divisor(sums))

(***************************************************************************)
(* SimilaritySpec: cosineSimilarity on its own.  Init draws the two        *)
(* vectors, of 0 to MaxDim components each, over 0, the smallest positive  *)
(* number, a number whose square is subnormal, 1, -1, 1.5 and the largest  *)
(* number; CosineCall is the call.                                         *)
(***************************************************************************)
Components ==
    {Zero, Fin(1), Fin(2 * MinNormal), Fin(OneUnits), Fin(-OneUnits),
     Fin(3 * (OneUnits \div 2)), Fin(MaxFinite)}

RECURSIVE VectorsOfDim(_)
VectorsOfDim(n) ==
    IF n = 0 THEN {<<>>}
    ELSE {Append(v, x) : v \in VectorsOfDim(n - 1), x \in Components}

Vectors == UNION {VectorsOfDim(n) : n \in 0..MaxDim}

SimilarityInit ==
    /\ IndexerInit
    /\ split = NoSplit
    /\ search = NoSearch
    /\ \E vecA \in Vectors, vecB \in Vectors :
          sim = [pc |-> "called", vecA |-> vecA, vecB |-> vecB, result |-> Zero]

CosineCall ==
    /\ sim.pc = "called"
    /\ sim' = [sim EXCEPT !.pc = "returned",
                          !.result = cosineSimilarity(sim.vecA, sim.vecB)]
    /\ UNCHANGED <<indexerVars, split, search>>

SimilarityNext == CosineCall

SimilaritySpec == SimilarityInit /\ [][SimilarityNext]_vars /\ WF_vars(CosineCall)

(***************************************************************************)
(* findMostRelevantChunks.  A chunk is its id and its embedding (the other *)
(* fields of an EmbeddedChunk are copied along untouched).                 *)
(***************************************************************************)
\* -x and x - y
Neg(x) == IF x.kind = "nan" THEN NaN ELSE [x EXCEPT !.n = -x.n]
Sub(x, y) == Add(x, Neg(y))

\* chunks.map(chunk => ({...chunk, score: cosineSimilarity(queryEmbedding, chunk.embedding)}))
Scored(queryEmbedding, chunks) ==
    [k \in 1..Len(chunks) |->
        [id |-> chunks[k].id, embedding |-> chunks[k].embedding,
         score |-> cosineSimilarity(queryEmbedding, chunks[k].embedding)]]

\* The comparator (a, b) => b.score - a.score.
CompareFn(a, b) == Sub(b.score, a.score)

\* What Array.prototype.sort makes of the comparator's value: negative, a goes
\* first; positive, b goes first; 0 or NaN, the two are equal.
Order(a, b) == LET v == CompareFn(a, b) IN IF v.kind = "nan" THEN 0 ELSE Sign(v.n)

\* The comparator is a consistent comparator for the elements of seq.
Consistent(seq) ==
    \A i, j, k \in DOMAIN seq :
        /\ Order(seq[i], seq[i]) = 0
        /\ Order(seq[i], seq[j]) = -Order(seq[j], seq[i])
        /\ (Order(seq[i], seq[j]) = 0 /\ Order(seq[j], seq[k]) = 0) =>
              Order(seq[i], seq[k]) = 0
        /\ (Order(seq[i], seq[j]) < 0 /\ Order(seq[j], seq[k]) < 0) =>
              Order(seq[i], seq[k]) < 0

\* x put into sorted after the elements that do not go after it.
SortedInsert(sorted, x) ==
    LET p == Cardinality({k \in DOMAIN sorted : Order(sorted[k], x) <= 0})
    IN  SubSeq(sorted, 1, p) \o <<x>> \o SubSeq(sorted, p + 1, Len(sorted))

\* The stable sort of the first n elements of seq.
RECURSIVE StableSortUpTo(_, _)
StableSortUpTo(seq, n) ==
    IF n = 0 THEN <<>> ELSE SortedInsert(StableSortUpTo(seq, n - 1), seq[n])

\* The results of scoredChunks.sort(compareFn): the stable sort when the
\* comparator is consistent; with an inconsistent one (a NaN score among
\* different scores) the order is implementation-defined, any permutation.
SortOutcomes(seq) ==
    IF Consistent(seq)
    THEN {StableSortUpTo(seq, Len(seq))}
    ELSE {[k \in 1..Len(seq) |-> seq[perm[k]]] : perm \in Permutations(1..Len(seq))}

\* A search that drops the chunks of another dimension before it ranks.
findMostRelevantChunksFiltered(queryEmbedding, chunks, topK) ==
    LET kept == SelectSeq(Scored(queryEmbedding, chunks),
                          LAMBDA c : Len(c.embedding) = Len(queryEmbedding))
    IN  {SubSeq(sorted, 1, Min(topK, Len(sorted))) : sorted \in SortOutcomes(kept)}

\* The results of findMostRelevantChunks: slice(0, topK) of the sorted chunks.
findMostRelevantChunks(queryEmbedding, chunks, topK) ==
    {SubSeq(sorted, 1, Min(topK, Len(sorted))) :
        sorted \in SortOutcomes(Scored(queryEmbedding, chunks))}

(***************************************************************************)
(* SearchSpec: findMostRelevantChunks on its own.  Init draws the query,   *)
(* the chunks and topK; the embeddings include equal ones, orthogonal      *)
(* ones, a zero vector, one of another dimension and one that overflows.   *)
(***************************************************************************)
One == Fin(OneUnits)
Huge == Fin(MaxFinite)

Queries == {<<One, Zero>>, <<One, One>>, <<Huge, Zero>>}

Embeddings ==
    {<<One, Zero>>, <<Zero, One>>, <<MinusOne, Zero>>, <<One, One>>, <<Zero, Zero>>,
     <<One>>, <<Huge, Huge>>}

RECURSIVE ChunkLists(_)
ChunkLists(n) ==
    IF n = 0 THEN {<<>>}
    ELSE {Append(cs, [id |-> n, embedding |-> e]) : cs \in ChunkLists(n - 1), e \in Embeddings}

SearchInit ==
    /\ IndexerInit
    /\ split = NoSplit
    /\ sim = NoSim
    /\ \E queryEmbedding \in Queries, n \in 0..MaxChunks, topK \in 0..MaxTopK :
          \E chunks \in ChunkLists(n) :
              search = [pc |-> "called", queryEmbedding |-> queryEmbedding,
                        chunks |-> chunks, topK |-> topK, result |-> <<>>]

FindCall ==
    /\ search.pc = "called"
    /\ \E result \in findMostRelevantChunks(search.queryEmbedding, search.chunks,
                                            search.topK) :
          search' = [search EXCEPT !.pc = "returned", !.result = result]
    /\ UNCHANGED <<indexerVars, split, sim>>

SearchNext == FindCall

SearchSpec == SearchInit /\ [][SearchNext]_vars /\ WF_vars(FindCall)

(***************************************************************************)
(* Vocabulary of the properties.                                           *)
(***************************************************************************)
Queued(d) == d <= Len(docs)
Accepted(d) == Queued(d) /\ ~StartsWithImage(docs[d].type)
Rejected(d) == Queued(d) /\ StartsWithImage(docs[d].type)
Dispatched(d) == d \in Range(dispatched)
InQueue(d) == d \in Range(Ids(queue))

Terminal == {"completed", "failed"}

\* The statuses the scheduler has handled for d, in order.
Received(d) == Statuses(handled[d])
\* The scheduler has handled a terminal status of d.
TerminalHandled(d) == Range(Received(d)) \cap Terminal # {}
\* The <<callback, status>> invocations of the status callback for d, in order.
StatusCalls(d) ==
    LET called == SelectSeq(handled[d], LAMBDA e : e.callback # Null)
    IN  [k \in 1..Len(called) |-> <<called[k].callback, called[k].status>>]

\* Dispatched documents whose terminal status the scheduler has not handled.
InFlight == {d \in DocIds : Dispatched(d) /\ ~TerminalHandled(d)}
Stalled == {d \in DocIds : jobs[d].pc = "stalled"}

IsPrefix(a, b) == Len(a) <= Len(b) /\ a = SubSeq(b, 1, Len(a))

\* The accepted ids in the order queueDocument accepted them.
RECURSIVE AcceptedUpTo(_)
AcceptedUpTo(n) ==
    IF n = 0 THEN <<>>
    ELSE IF Accepted(n) THEN Append(AcceptedUpTo(n - 1), n) ELSE AcceptedUpTo(n - 1)

AcceptedSeq == AcceptedUpTo(Len(docs))

(***************************************************************************)
(* C1.  In every reachable state at most MAX_CONCURRENT = 3 documents are  *)
(* dispatched and not yet terminal, and getActiveCount() is within 0..3.   *)
(***************************************************************************)
C1_BoundedConcurrency ==
    /\ Cardinality(InFlight) <= MAX_CONCURRENT
    /\ activeWorkers \in 0..MAX_CONCURRENT

\* All three slots are taken while a fourth document waits.
C1_Witness ==
    /\ Cardinality(InFlight) = MAX_CONCURRENT
    /\ activeWorkers = MAX_CONCURRENT
    /\ Len(queue) > 0

(***************************************************************************)
(* C2.  Self-sustaining drain, under FairSpec: unless some dispatched      *)
(* document never reports (a stalled batch), every accepted document is    *)
(* eventually dispatched and its terminal status handled, and the queue    *)
(* length and the active count end at 0 for good, with no step other than  *)
(* the event loops' own.                                                   *)
(***************************************************************************)
Drained == Len(queue) = 0 /\ activeWorkers = 0

C2_SelfSustainingDrain ==
    /\ \A d \in DocIds :
          Accepted(d) ~> ((Dispatched(d) /\ TerminalHandled(d)) \/ Stalled # {})
    /\ <>[](Drained \/ Stalled # {})

\* Every call was made, more documents than slots were accepted, and all of
\* them have ended with nothing stalled.
C2_Witness ==
    /\ Len(docs) = FairDocs
    /\ Len(AcceptedSeq) > MAX_CONCURRENT
    /\ \A d \in DocIds : Accepted(d) => TerminalHandled(d)
    /\ Stalled = {}
    /\ Drained

(***************************************************************************)
(* C3.  Documents are dispatched in exactly the order queueDocument        *)
(* accepted them: the dispatched ids followed by the queued ids are the    *)
(* accepted ids in acceptance order, whatever terminal statuses arrived.   *)
(***************************************************************************)
C3_FifoDispatch == dispatched \o Ids(queue) = AcceptedSeq

\* Two documents beyond the limit were dispatched, and a later document ended
\* before the first one did.
C3_Witness ==
    /\ Len(dispatched) = MAX_CONCURRENT + 2
    /\ ~TerminalHandled(dispatched[1])
    /\ TerminalHandled(dispatched[2])

(***************************************************************************)
(* C4.  The statuses posted for a document are 'indexing' first, then at   *)
(* most one terminal status; only dispatched documents post any; and the   *)
(* scheduler handles them in the order posted.                             *)
(***************************************************************************)
StatusOrders ==
    {<<>>, <<"indexing">>, <<"indexing", "completed">>, <<"indexing", "failed">>}

C4_StatusOrder ==
    \A d \in DocIds :
        /\ emitted[d] \in StatusOrders
        /\ (emitted[d] # <<>> => Dispatched(d))
        /\ IsPrefix(Received(d), emitted[d])

\* One document ended 'completed' and another 'failed', both handled.
C4_Witness ==
    \E d, e \in DocIds :
        /\ Received(d) = <<"indexing", "completed">>
        /\ Received(e) = <<"indexing", "failed">>

(***************************************************************************)
(* C5.  If the provider throws while document D is indexed, D's statuses   *)
(* are 'indexing' then 'failed': the registered status callback receives   *)
(* (D, 'failed'), never 'completed', and no chunk payload is posted or     *)
(* delivered for D, whatever batches had succeeded before.                 *)
(***************************************************************************)
C5_ProviderThrowFails ==
    \A d \in DocIds :
        jobs[d].pc = "threw" =>
            /\ emitted[d] = <<"indexing", "failed">>
            /\ IsPrefix(Received(d), emitted[d])
            /\ \A k \in DOMAIN mainInbox :
                  mainInbox[k].docId = d =>
                      /\ mainInbox[k].status # "completed"
                      /\ ~mainInbox[k].hasChunks
            /\ dataCalls[d] = <<>>
            /\ \A k \in DOMAIN handled[d] :
                  /\ handled[d][k].status # "completed"
                  /\ (k = 2 /\ handled[d][k].callback # Null) =>
                        StatusCalls(d)[Len(StatusCalls(d))]
                            = <<handled[d][k].callback, "failed">>

\* A document of several batches whose first batch succeeded and whose second
\* one threw, handled with both callbacks registered.
C5_Witness ==
    \E d \in DocIds :
        /\ jobs[d].pc = "threw"
        /\ Len(jobs[d].embeddings) > 0
        /\ Len(handled[d]) = 2
        /\ handled[d][2].callback # Null
        /\ handled[d][2].dataCallback # Null

(***************************************************************************)
(* C6.  A 'failed' status releases the slot exactly like 'completed': the  *)
(* step that handles either one gives the slot to the head of the queue,   *)
(* or lowers the active count by one when nothing waits.  Under FairSpec,  *)
(* once some document has failed every accepted document is still          *)
(* dispatched, unless stalled documents hold every slot.                   *)
(***************************************************************************)
HandlesStatus(status) ==
    \E d \in DocIds :
        /\ Len(handled'[d]) = Len(handled[d]) + 1
        /\ handled'[d][Len(handled'[d])].status = status

SlotReleased ==
    IF queue = <<>>
    THEN /\ activeWorkers' = activeWorkers - 1
         /\ UNCHANGED <<queue, dispatched, workerInbox>>
    ELSE /\ activeWorkers' = activeWorkers
         /\ queue' = Tail(queue)
         /\ dispatched' = Append(dispatched, Head(queue).id)
         /\ workerInbox' = Append(workerInbox, Head(queue))

SomeFailed == \E f \in DocIds : "failed" \in Range(Received(f))
SlotsStalled == Cardinality(Stalled) >= MAX_CONCURRENT

C6_FailureReleasesSlot ==
    /\ [][\A status \in Terminal : HandlesStatus(status) => SlotReleased]_vars
    /\ \A d \in DocIds : (Accepted(d) /\ SomeFailed) ~> (Dispatched(d) \/ SlotsStalled)

\* Three documents failed and the documents queued behind them were dispatched.
C6_Witness ==
    /\ Cardinality({f \in DocIds : "failed" \in Range(Received(f))}) >= MAX_CONCURRENT
    /\ Len(dispatched) > MAX_CONCURRENT
    /\ \A f \in 1..MAX_CONCURRENT : "failed" \in Range(Received(dispatched[f]))

(***************************************************************************)
(* C7.  Under FairSpec, a stalled embedding call delays no other document  *)
(* for ever: every accepted document that does not stall itself is         *)
(* eventually dispatched and its terminal status handled, as long as       *)
(* fewer than MAX_CONCURRENT documents are stalled.                        *)
(***************************************************************************)
C7_StallIsolated ==
    \A d \in DocIds :
        Accepted(d) ~> ((Dispatched(d) /\ TerminalHandled(d)) \/ d \in Stalled \/ SlotsStalled)

\* One document is stalled and the other accepted documents, more than the
\* remaining slots, have all ended.
C7_Witness ==
    /\ Cardinality(Stalled) = 1
    /\ Len(AcceptedSeq) > MAX_CONCURRENT
    /\ \A d \in DocIds : (Accepted(d) /\ d \notin Stalled) => TerminalHandled(d)

(***************************************************************************)
(* C8.  queueDocument with an image document is a silent no-op: the call   *)
(* leaves the queue, the active count and the worker's inbox unchanged,    *)
(* and the document is never queued, dispatched, given a status or handed  *)
(* to a callback.                                                          *)
(***************************************************************************)
ImageCall ==
    /\ Len(docs') = Len(docs) + 1
    /\ StartsWithImage(docs'[Len(docs')].type)

C8_ImageIsNoOp ==
    /\ [](\A d \in DocIds :
            Rejected(d) =>
                /\ ~InQueue(d)
                /\ ~Dispatched(d)
                /\ d \notin Range(Ids(workerInbox))
                /\ jobs[d].pc = "idle"
                /\ emitted[d] = <<>>
                /\ handled[d] = <<>>
                /\ dataCalls[d] = <<>>)
    /\ [][ImageCall => UNCHANGED <<queue, activeWorkers, workerInbox, dispatched,
                                   mainInbox, handled, dataCalls>>]_vars

\* An image was queued while a text document waited in the queue, the status
\* callback is registered, and later documents have since ended.
C8_Witness ==
    \E d \in DocIds :
        /\ Rejected(d)
        /\ onStatusUpdate # Null
        /\ Len(dispatched) > MAX_CONCURRENT
        /\ d < dispatched[Len(dispatched)]
        /\ TerminalHandled(dispatched[Len(dispatched)])

(***************************************************************************)
(* C9.  The data callback is invoked exactly once, with the document and   *)
(* the embedded chunks the worker produced, for every document whose       *)
(* 'completed' is handled with at least one embedded chunk (with a data    *)
(* callback registered), and never for a document that failed or produced  *)
(* no embedded chunk.                                                      *)
(***************************************************************************)
Produced(d) == chunksToEmbed(jobs[d].chunks, jobs[d].embeddings)

CompletedHandledWithDataCallback(d) ==
    \E k \in DOMAIN handled[d] :
        handled[d][k].status = "completed" /\ handled[d][k].dataCallback # Null

Seen(d, status) == \E cb \in StatusCallbacks : <<cb, status>> \in Range(StatusCalls(d))
SeenIndexing == {d \in DocIds : Seen(d, "indexing")}
Ended == {d \in DocIds : TerminalHandled(d)}

C10_ThreeIndexingBeforeCompleted ==
    (\E d \in DocIds : Seen(d, "completed")) => Cardinality(SeenIndexing) >= MAX_CONCURRENT

(***************************************************************************)
(* C10, amended.  After the burst exactly 3 documents are dispatched and   *)
(* the others wait until a terminal status is handled; each terminal       *)
(* status handled dispatches exactly one more (so the 4th is dispatched    *)
(* by the first one); and at no time are more than 3 documents 'indexing'  *)
(* without a terminal status.  Nothing orders 'completed' of one document  *)
(* after 'indexing' of another.                                            *)
(***************************************************************************)
C10_BurstAdmission ==
    Len(docs) = BurstDocs =>
        /\ Len(dispatched) = Min(MAX_CONCURRENT + Cardinality(Ended), BurstDocs)
        /\ Len(queue) = BurstDocs - Len(dispatched)
        /\ Cardinality(SeenIndexing \ Ended) <= MAX_CONCURRENT
        /\ SeenIndexing \subseteq Range(dispatched)

\* The first terminal status was handled and the 4th document is 'indexing'.
C10_Witness ==
    /\ Cardinality(Ended) = 1
    /\ Len(dispatched) = MAX_CONCURRENT + 1
    /\ Seen(dispatched[MAX_CONCURRENT + 1], "indexing")
    /\ Cardinality(SeenIndexing \ Ended) = MAX_CONCURRENT

(***************************************************************************)
(* C11.  A document with empty content has zero chunks; the worker posts   *)
(* 'indexing' and 'completed' for it in one task, the 'completed' message  *)
(* has no chunk payload; no batch of embedContent calls is ever started    *)
(* for it; and the data callback is never invoked for it.                  *)
(***************************************************************************)
EmptyDoc(d) == Accepted(d) /\ docs[d].content = EmptyText

C11_EmptyDocument ==
    \A d \in DocIds :
        EmptyDoc(d) =>
            /\ splitTextIntoChunks(docs[d].content, d, ModelChunkSize, ModelOverlap) = <<>>
            /\ emitted[d] \in {<<>>, <<"indexing", "completed">>}
            /\ jobs[d].pc \in {"idle", "empty"}
            /\ jobs[d].embeddings = <<>>
            /\ \A k \in DOMAIN mainInbox :
                  mainInbox[k].docId = d =>
                      ~mainInbox[k].hasChunks /\ mainInbox[k].chunks = <<>>
            /\ IsPrefix(Received(d), emitted[d])
            /\ dataCalls[d] = <<>>

\* An empty document's 'completed' was handled with both callbacks registered,
\* after another document had delivered its chunks to the data callback.
C11_Witness ==
    \E d, e \in DocIds :
        /\ EmptyDoc(d)
        /\ Len(handled[d]) = 2
        /\ handled[d][2].status = "completed"
        /\ handled[d][2].callback # Null
        /\ handled[d][2].dataCallback # Null
        /\ Len(dataCalls[e]) = 1

(***************************************************************************)
(* C12.  Status delivery is single-slot, last-registration-wins.  Every    *)
(* message the worker posted is either still in the channel or was handled *)
(* once, in the order posted; the step that handles a message takes the    *)
(* oldest one and invokes the callback passed to the latest                *)
(* setStatusCallback call (none if there was no call); no other step adds  *)
(* to, or rewrites, the record of invocations, so a message handled with   *)
(* no callback registered is never given to a later one.                   *)
(***************************************************************************)
PendingFor(d) == SelectSeq(mainInbox, LAMBDA m : m.docId = d)

DeliveredOnceInOrder ==
    \A d \in DocIds : Received(d) \o Statuses(PendingFor(d)) = emitted[d]

HandlesHeadWithLatest ==
    \A d \in DocIds :
        handled'[d] # handled[d] =>
            /\ mainInbox # <<>>
            /\ Head(mainInbox).docId = d
            /\ mainInbox' = Tail(mainInbox)
            /\ Len(handled'[d]) = Len(handled[d]) + 1
            /\ SubSeq(handled'[d], 1, Len(handled[d])) = handled[d]
            /\ handled'[d][Len(handled'[d])].status = Head(mainInbox).status
            /\ handled'[d][Len(handled'[d])].callback = registered
            /\ \A e \in DocIds \ {d} : handled'[e] = handled[e]

NothingDropped ==
    (\A d \in DocIds : handled'[d] = handled[d]) => IsPrefix(mainInbox, mainInbox')

C12_LastRegistrationWins ==
    /\ [] DeliveredOnceInOrder
    /\ [][HandlesHeadWithLatest /\ NothingDropped]_vars

\* A document's 'indexing' was handled with no callback registered, f was
\* registered and invoked for the next message, then g replaced f and was
\* invoked for the message after that.
C12_Witness ==
    \E d, e \in DocIds :
        /\ d # e
        /\ StatusCalls(d) = <<<<"f", "completed">>>>
        /\ Len(handled[d]) = 2
        /\ handled[d][1].callback = Null
        /\ Len(handled[e]) >= 1
        /\ handled[e][1].callback = "g"
        /\ registered = "g"

(***************************************************************************)
(* The chunker's properties are stated of the call followed in split,      *)
(* once it has returned.                                                   *)
(***************************************************************************)
SplitReturned == split.pc = "returned"
ChunkLen(chunk) == chunk.endIndex - chunk.startIndex
OneWholeChunk ==
    /\ Len(split.chunks) = 1
    /\ split.chunks[1].startIndex = 0
    /\ split.chunks[1].endIndex = Len(split.text)

(***************************************************************************)
(* C13.  As claimed: for every text T with len(T) <= chunkSize the call    *)
(* returns exactly one chunk, with startIndex = 0 and endIndex = len(T).   *)
(***************************************************************************)
C13_ShortTextOneChunk ==
    (SplitReturned /\ Len(split.text) <= split.chunkSize) => OneWholeChunk

(***************************************************************************)
(* C13, amended.  For every non-empty text T with len(T) <= chunkSize the  *)
(* call returns exactly one chunk, with startIndex = 0, endIndex = len(T)  *)
(* and the whole text as content; for the empty text it returns no chunk.  *)
(***************************************************************************)
C13_NonEmptyShortTextOneChunk ==
    (SplitReturned /\ Len(split.text) <= split.chunkSize) =>
        IF Len(split.text) = 0
        THEN split.chunks = <<>>
        ELSE OneWholeChunk /\ split.chunks[1].content = split.text

\* A text of exactly chunkSize characters that ends in a space after a newline
\* came back as one chunk.
C13_Witness ==
    /\ SplitReturned
    /\ Len(split.text) = split.chunkSize
    /\ split.chunkSize >= 3
    /\ split.text[Len(split.text)] = SP
    /\ split.text[Len(split.text) - 1] = NL
    /\ OneWholeChunk

(***************************************************************************)
(* C14.  For every text T with len(T) > chunkSize, every chunk returned    *)
(* has endIndex - startIndex <= chunkSize: snapping the end to a newline   *)
(* or a space never makes a chunk longer than chunkSize.                   *)
(***************************************************************************)
C14_ChunkWithinSize ==
    (SplitReturned /\ Len(split.text) > split.chunkSize) =>
        \A k \in DOMAIN split.chunks : ChunkLen(split.chunks[k]) <= split.chunkSize

(***************************************************************************)
(* C15.  For every text T with len(T) > chunkSize, consecutive chunks      *)
(* share at most `overlap` characters (chunk[i].endIndex -                 *)
(* chunk[i+1].startIndex <= overlap), and the last chunk ends at len(T).   *)
(***************************************************************************)
Shared(k) == split.chunks[k].endIndex - split.chunks[k + 1].startIndex

C15_OverlapBounded ==
    (SplitReturned /\ Len(split.text) > split.chunkSize) =>
        /\ \A k \in 1..(Len(split.chunks) - 1) : Shared(k) <= split.overlap
        /\ split.chunks # <<>>
        /\ split.chunks[Len(split.chunks)].endIndex = Len(split.text)

\* A call returned at least three chunks, the first two sharing exactly
\* `overlap` > 0 characters and two later ones sharing fewer.
C15_Witness ==
    /\ SplitReturned
    /\ Len(split.text) > split.chunkSize
    /\ split.overlap > 0
    /\ Len(split.chunks) >= 3
    /\ Shared(1) = split.overlap
    /\ \E k \in 2..(Len(split.chunks) - 1) : Shared(k) < split.overlap

(***************************************************************************)
(* C16.  splitTextIntoChunks terminates for every text and every           *)
(* chunkSize/overlap pair, overlap >= chunkSize included: each chunk       *)
(* starts strictly after the previous one, so at most len(T) chunks are    *)
(* produced, and the call returns.                                         *)
(***************************************************************************)
StartsIncrease ==
    /\ \A k \in 1..(Len(split.chunks) - 1) :
          split.chunks[k].startIndex < split.chunks[k + 1].startIndex
    /\ (split.pc = "while" /\ split.chunks # <<>>) =>
          split.chunks[Len(split.chunks)].startIndex < split.startIndex

C16_SplitTerminates ==
    /\ [](StartsIncrease /\ Len(split.chunks) <= Len(split.text))
    /\ <>SplitReturned

\* A call with overlap >= chunkSize returned as many chunks as the text has
\* characters.
C16_Witness ==
    /\ SplitReturned
    /\ split.overlap >= split.chunkSize
    /\ Len(split.text) >= 3
    /\ Len(split.chunks) = Len(split.text)

(***************************************************************************)
(* The similarity engine's properties are stated of the call followed in   *)
(* sim, once it has returned.                                              *)
(***************************************************************************)
SimReturned == sim.pc = "returned"
SameLength == Len(sim.vecA) = Len(sim.vecB)

(***************************************************************************)
(* C17.  cosineSimilarity of two vectors of different lengths returns the  *)
(* sentinel -1, whatever the vectors hold (one of them empty or all zero   *)
(* included: the length is tested first); the call has no other outcome    *)
(* than a returned number.                                                 *)
(***************************************************************************)
C17_MismatchSentinel ==
    /\ sim.pc \in {"called", "returned"}
    /\ (SimReturned /\ ~SameLength) => sim.result = MinusOne

\* A call with an all-zero vector against a vector of another length returned -1.
C17_Witness ==
    /\ SimReturned
    /\ ~SameLength
    /\ AllZero(sim.vecA)
    /\ Len(sim.vecA) > 0
    /\ ~AllZero(sim.vecB)
    /\ sim.result = MinusOne

(***************************************************************************)
(* C18.  cosineSimilarity of two vectors of equal length returns 0 when    *)
(* either vector has zero magnitude (all components 0, or both vectors     *)
(* empty), and whenever it divides the divisor is not 0.                   *)
(***************************************************************************)
C18_ZeroMagnitudeZero ==
    (SimReturned /\ SameLength) =>
        LET sums == Sums(sim.vecA, sim.vecB)
        IN  /\ (AllZero(sim.vecA) \/ AllZero(sim.vecB)) => sim.result = Zero
            /\ (IsZero(sums.normA) \/ IsZero(sums.normB)) => sim.result = Zero
            /\ ~(IsZero(sums.normA) \/ IsZero(sums.normB)) =>
                  /\ ~IsZero(Divisor(sums))
                  /\ sim.result = Div(sums.dotProduct, Divisor(sums))

\* An all-zero vector against a vector of the largest number returned 0.
C18_Witness ==
    /\ SimReturned
    /\ SameLength
    /\ Len(sim.vecA) = MaxDim
    /\ AllZero(sim.vecA)
    /\ \A i \in DOMAIN sim.vecB : sim.vecB[i] = Fin(MaxFinite)
    /\ sim.result = Zero

(***************************************************************************)
(* C19.  cosineSimilarity(v, v) is 1, within the tolerance, for every      *)
(* vector v that has a non-zero component.                                 *)
(***************************************************************************)
Tolerance == ToleranceUlps * (OneUnits \div 2 ^ (FloatBits - 1))

NearOne(x) == x.kind = "finite" /\ Abs(x.n - OneUnits) <= Tolerance

C19_SelfSimilarityOne ==
    (SimReturned /\ sim.vecA = sim.vecB /\ ~AllZero(sim.vecA)) => NearOne(sim.result)

(***************************************************************************)
(* The properties of findMostRelevantChunks are stated of the call         *)
(* followed in search, once it has returned.                               *)
(***************************************************************************)
SearchReturned == search.pc = "returned"

\* x > y, for numbers; NaN is greater than nothing and nothing is greater
\* than NaN.
Rank(x) == IF x.kind = "infinity" THEN x.n * (MaxFinite + 1) ELSE x.n
Greater(x, y) == x.kind # "nan" /\ y.kind # "nan" /\ Rank(x) > Rank(y)

ExpectedLength == Min(search.topK, Len(search.chunks))

(***************************************************************************)
(* C20.  For every query vector, chunk list and topK >= 0 the result has   *)
(* min(topK, len(chunks)) elements, each of a score strictly greater than  *)
(* the score of the next.                                                  *)
(***************************************************************************)
C20_StrictlyDescending ==
    SearchReturned =>
        /\ Len(search.result) = ExpectedLength
        /\ \A k \in 1..(Len(search.result) - 1) :
              Greater(search.result[k].score, search.result[k + 1].score)

\* x === y, for numbers: NaN equals nothing.
SameScore(x, y) == x.kind # "nan" /\ y.kind # "nan" /\ Rank(x) = Rank(y)

\* The chunks with their scores, in input order (the id of a chunk is its place).
ScoredChunks == Scored(search.queryEmbedding, search.chunks)
Returned(c) == \E k \in DOMAIN search.result : search.result[k].id = c.id

(***************************************************************************)
(* C21.  Ties are broken by the input order: of two returned chunks of     *)
(* equal score the one earlier in the input is earlier in the result, and  *)
(* when only one of two chunks of equal score is returned it is the        *)
(* earlier one.                                                            *)
(***************************************************************************)
C21_TiesKeepInputOrder ==
    SearchReturned =>
        /\ \A k, l \in DOMAIN search.result :
              (k < l /\ SameScore(search.result[k].score, search.result[l].score)) =>
                  search.result[k].id < search.result[l].id
        /\ \A a, b \in Range(ScoredChunks) :
              (SameScore(a.score, b.score) /\ Returned(b) /\ ~Returned(a)) => b.id < a.id

(***************************************************************************)
(* The properties of App's store.                                          *)
(***************************************************************************)
\* The document was uploaded and has been removed from the list.
Removed(d) == Queued(d) /\ ~Listed(d)

\* Nothing of the pipeline is under way: no message is waiting and no batch
\* is awaited.
AtRest ==
    /\ workerInbox = <<>>
    /\ mainInbox = <<>>
    /\ \A d \in DocIds : jobs[d].pc # "awaiting"

ChunksOf(d) ==
    {e \in Range(allEmbeddings) : e.documentId = d} \cup
    {e \in cloudEmbeddings : e.documentId = d}

(***************************************************************************)
(* C22.  At rest, no chunk of a removed document is left in allEmbeddings  *)
(* or in the persisted chunks, also when the document was removed while    *)
(* its indexing was in flight.                                             *)
(***************************************************************************)
C22_NoDanglingChunks ==
    AtRest => \A d \in DocIds : Removed(d) => ChunksOf(d) = {}

\* The payloads posted so far that the scheduler has not handled, and those
\* handed to the data callback.
Payloads ==
    {mainInbox[k].chunks : k \in {n \in DOMAIN mainInbox : mainInbox[n].hasChunks}} \cup
    UNION {{dataCalls[d][k][2] : k \in DOMAIN dataCalls[d]} : d \in DocIds}

OwnVector(chunk) == chunk.embedding = Embed(chunk.content)

(***************************************************************************)
(* C23.  In every payload posted with 'completed', each chunk carries the  *)
(* vector the provider produced for its own text; a chunk whose text got   *)
(* no vector is not in the payload.                                        *)
(***************************************************************************)
C23_PayloadAligned ==
    \A payload \in Payloads : \A k \in DOMAIN payload : OwnVector(payload[k])

(***************************************************************************)
(* C24.  Whatever the status callback does, the handling of a terminal     *)
(* status releases one slot and re-runs admission, and no exception        *)
(* leaves the scheduler's handler.                                         *)
(***************************************************************************)
C24_CallbackCannotLeakSlot ==
    [][\A status \in Terminal :
          HandlesStatus(status) => (SlotReleased /\ escaped' = escaped)]_vars

(***************************************************************************)
(* C25.  Work conservation: between two handlers of the scheduler, a       *)
(* non-empty queue implies that the active count is MAX_CONCURRENT.        *)
(***************************************************************************)
C25_WorkConserving == queue # <<>> => activeWorkers = MAX_CONCURRENT

\* A document waits at capacity after terminal statuses were handled and
\* their single admission attempts took the documents queued before it.
C25_Witness ==
    /\ queue # <<>>
    /\ activeWorkers = MAX_CONCURRENT
    /\ escaped = 0
    /\ Len(dispatched) > MAX_CONCURRENT
    /\ \E d \in DocIds : TerminalHandled(d)

\* The handler of a terminal status of d ran to its end.
TerminalDone(d) ==
    \E k \in DOMAIN handled[d] :
        handled[d][k].status \in Terminal /\ handled[d][k].outcome = "returns"

AcceptedDocs == {d \in DocIds : Accepted(d)}
\* Dispatched, and the handling of a terminal status not yet done.
Active == {d \in DocIds : Dispatched(d) /\ ~TerminalDone(d)}
Finished == {d \in DocIds : Dispatched(d) /\ TerminalDone(d)}

(***************************************************************************)
(* C26.  Accounting: the active count is the number of documents           *)
(* dispatched whose terminal status has not been handled, it is never      *)
(* negative, and the accepted documents are those queued, those in flight  *)
(* and those ended: accepted = queue length + active count + ended.        *)
(***************************************************************************)
C26_Accounting ==
    /\ activeWorkers = Cardinality(Active)
    /\ activeWorkers >= 0
    /\ Cardinality(AcceptedDocs) = Len(queue) + activeWorkers + Cardinality(Finished)
    /\ \A d \in AcceptedDocs : InQueue(d) \/ Dispatched(d)
    /\ \A d \in DocIds : ~(InQueue(d) /\ Dispatched(d))

\* Of five accepted documents one waits, three are in flight and one has
\* ended.
C26_Witness ==
    /\ Cardinality(AcceptedDocs) = 5
    /\ Len(queue) = 1
    /\ activeWorkers = MAX_CONCURRENT
    /\ Cardinality(Finished) = 1

\* A step that is a call of queueDocument, and the document it is given.
QueueDocumentCall == Len(docs') = Len(docs) + 1
NewDoc == docs'[Len(docs')]

\* The call only appends: the scheduler's count, the worker's inbox and every
\* message and status are as before.
OnlyAppends ==
    /\ queue' = Append(queue, NewDoc)
    /\ UNCHANGED <<activeWorkers, workerInbox, mainInbox, dispatched, emitted, handled,
                   jobs>>

(***************************************************************************)
(* C27.  queueDocument on a non-image document at capacity only appends    *)
(* the document to the tail of the queue; an admission attempt with an     *)
(* empty queue or at capacity changes nothing.                             *)
(***************************************************************************)
C27_AtCapacityOnlyAppends ==
    /\ []((queue = <<>> \/ activeWorkers >= MAX_CONCURRENT) => processNext(Sched) = Sched)
    /\ [][(QueueDocumentCall /\ ~StartsWithImage(NewDoc.type)
              /\ activeWorkers = MAX_CONCURRENT) => OnlyAppends]_vars

\* Two documents were queued at capacity, one behind the other.
C27_Witness ==
    /\ activeWorkers = MAX_CONCURRENT
    /\ Len(dispatched) = MAX_CONCURRENT
    /\ Ids(queue) = <<MAX_CONCURRENT + 1, MAX_CONCURRENT + 2>>

\* How many times x occurs in seq.
Count(seq, x) == Cardinality({k \in DOMAIN seq : seq[k] = x})

\* The indexingStatus of a listed document.
IndexingStatusOf(d) ==
    (CHOOSE doc \in Range(documents) : doc.id = d).indexingStatus

\* App's status callback was told that d failed.
ToldFailed(d) ==
    \E k \in DOMAIN handled[d] :
        /\ handled[d][k].status = "failed"
        /\ handled[d][k].callback \in StatusCallbacks
        /\ handled[d][k].outcome = "returns"

\* The worker's handler for d starts at most once, and with it the one call
\* of getEmbeddings: a job that has left "idle" stays away from it, and a call
\* is awaited anew only by an idle job.
OneRun(d) ==
    /\ jobs[d].pc # "idle" => jobs'[d].pc # "idle"
    /\ (jobs'[d].pc = "awaiting" /\ jobs'[d].i = 0 /\ jobs'[d] # jobs[d]) =>
          jobs[d].pc = "idle"

(***************************************************************************)
(* C28.  At most one attempt: no document is dispatched twice, or while    *)
(* it is queued; the worker runs at most once for it and posts at most     *)
(* one terminal status; nothing follows 'failed'; and a document whose     *)
(* failure App was told stays in the list with indexingStatus 'failed'.    *)
(***************************************************************************)
C28_AtMostOneAttempt ==
    /\ [](\A d \in DocIds :
            /\ Count(dispatched, d) <= 1
            /\ ~(InQueue(d) /\ Dispatched(d))
            /\ Count(emitted[d], "indexing") <= 1
            /\ Count(emitted[d], "completed") + Count(emitted[d], "failed") <= 1
            /\ "failed" \in Range(emitted[d]) => emitted[d][Len(emitted[d])] = "failed"
            /\ Queued(d) => Listed(d)
            /\ ToldFailed(d) => IndexingStatusOf(d) = "failed")
    /\ [][\A d \in DocIds : OneRun(d)]_vars

\* A document failed, App was told, and the documents queued behind it were
\* dispatched since; it is listed as 'failed'.
C28_Witness ==
    /\ ToldFailed(1)
    /\ IndexingStatusOf(1) = "failed"
    /\ Len(dispatched) > MAX_CONCURRENT
    /\ \E d \in DocIds : d # 1 /\ "completed" \in Range(Received(d))

(***************************************************************************)
(* C29.  No timeout, no cancellation: a document whose embedding call      *)
(* never returns posts no terminal status and keeps its slot, so the       *)
(* active count stays at least the number of such documents; while three   *)
(* of them hang, nothing is dispatched and the queue only grows.           *)
(***************************************************************************)
C29_HungCallKeepsSlot ==
    /\ [](/\ \A d \in Stalled :
               /\ Range(emitted[d]) \cap Terminal = {}
               /\ d \in InFlight
          /\ activeWorkers >= Cardinality(Stalled))
    /\ [][/\ \A d \in Stalled : jobs'[d].pc = "stalled"
          /\ SlotsStalled => /\ UNCHANGED <<dispatched, workerInbox>>
                              /\ IsPrefix(queue, queue')]_vars

\* Three documents hang, a fourth waits in the queue and nothing else is
\* under way.
C29_Witness ==
    /\ Cardinality(Stalled) = MAX_CONCURRENT
    /\ activeWorkers = MAX_CONCURRENT
    /\ queue # <<>>
    /\ mainInbox = <<>>
    /\ workerInbox = <<>>

\* The values an indexingStatus may take, in their order.
StatusTrails == {<<"pending", "indexing", t>> : t \in Terminal}

\* App's status callback was told every status the scheduler handled for d.
AppTold(d) ==
    \A k \in DOMAIN handled[d] :
        handled[d][k].callback \in StatusCallbacks /\ handled[d][k].outcome = "returns"

(***************************************************************************)
(* C30.  The indexingStatus of a document queued by the upload handler is  *)
(* 'pending', then 'indexing', then one of 'completed' and 'failed': the   *)
(* values it took are an initial part of such a sequence, a document in    *)
(* the list holds the last of them, and it has taken all three once App    *)
(* was told its terminal status.                                           *)
(***************************************************************************)
C30_StatusLifecycle ==
    \A d \in DocIds :
        Accepted(d) =>
            /\ \E t \in StatusTrails : IsPrefix(trail[d], t)
            /\ trail[d] # <<>>
            /\ Listed(d) => IndexingStatusOf(d) = trail[d][Len(trail[d])]
            /\ (Listed(d) /\ AppTold(d) /\ TerminalDone(d)) => trail[d] \in StatusTrails

\* One document went to 'completed' and another to 'failed', each by way of
\* 'pending' and 'indexing'.
C30_Witness ==
    /\ \E d \in DocIds : Listed(d) /\ trail[d] = <<"pending", "indexing", "completed">>
    /\ \E d \in DocIds : Listed(d) /\ trail[d] = <<"pending", "indexing", "failed">>


(***************************************************************************)
(* C31.  Every chunk produced by splitTextIntoChunks has                   *)
(* 0 <= startIndex < endIndex <= len(text), its content is the characters  *)
(* of the text from startIndex up to endIndex, and the chunks are emitted  *)
(* in strictly increasing order of startIndex.                             *)
(***************************************************************************)
WellFormedChunk(chunk) ==
    /\ 0 <= chunk.startIndex
    /\ chunk.startIndex < chunk.endIndex
    /\ chunk.endIndex <= Len(split.text)
    /\ Len(chunk.content) = ChunkLen(chunk)
    /\ \A i \in 1..ChunkLen(chunk) :
          chunk.content[i] = split.text[chunk.startIndex + i]

C31_ChunksWellFormed ==
    /\ \A k \in DOMAIN split.chunks : WellFormedChunk(split.chunks[k])
    /\ \A k \in 1..(Len(split.chunks) - 1) :
          split.chunks[k].startIndex < split.chunks[k + 1].startIndex

\* A call returned several chunks, one of them cut short at a newline or a
\* space and the last one shorter than chunkSize.
C31_Witness ==
    /\ SplitReturned
    /\ Len(split.chunks) >= 2
    /\ \E k \in 1..(Len(split.chunks) - 1) :
          ChunkLen(split.chunks[k]) < split.chunkSize
    /\ ChunkLen(split.chunks[Len(split.chunks)]) < split.chunkSize
    /\ C31_ChunksWellFormed

(***************************************************************************)
(* C32.  Chunk ids are deterministic and unique within a document: the     *)
(* i-th chunk of a split (counted from 0, without gaps) has the id made of *)
(* documentId and i and carries the documentId of the call, no two chunks  *)
(* of the split share an id, and a second split of the same text returns   *)
(* the same ids.                                                           *)
(***************************************************************************)
SecondSplit ==
    splitTextIntoChunks(split.text, split.documentId, split.chunkSize, split.overlap)

C32_ChunkIds ==
    /\ \A k \in DOMAIN split.chunks :
          /\ split.chunks[k].id = <<split.documentId, k - 1>>
          /\ split.chunks[k].documentId = split.documentId
    /\ \A j, k \in DOMAIN split.chunks :
          split.chunks[j].id = split.chunks[k].id => j = k
    /\ SplitReturned =>
          /\ Len(SecondSplit) = Len(split.chunks)
          /\ \A k \in DOMAIN split.chunks : SecondSplit[k].id = split.chunks[k].id

\* A call returned four chunks or more, the last one numbered 3 or more.
C32_Witness ==
    /\ SplitReturned
    /\ Len(split.chunks) >= 4
    /\ split.chunks[Len(split.chunks)].id = <<split.documentId, Len(split.chunks) - 1>>
    /\ Len(SecondSplit) = Len(split.chunks)

(***************************************************************************)
(* C33.  Boundary snapping.  For a non-final chunk starting at s: if the   *)
(* last newline before the candidate end s + chunkSize lies past the       *)
(* midpoint s + chunkSize * 0.5, the chunk ends immediately after that     *)
(* newline; otherwise, if the last space before the candidate end lies     *)
(* past the midpoint, the chunk ends immediately after that space;         *)
(* otherwise the chunk is cut at exactly s + chunkSize.  A qualifying      *)
(* newline wins over any space, even a later one, and every non-final      *)
(* chunk is longer than chunkSize / 2.                                     *)
(***************************************************************************)
\* The chunks after which the loop went on.
NonFinal ==
    {k \in DOMAIN split.chunks : k < Len(split.chunks) \/ split.pc = "while"}

\* The last index before the candidate end that holds ch, or -1.
LastBefore(ch, candidateEnd) == LastIndexOf(split.text, ch, candidateEnd - 1)

PastMidpoint(index, s) == 2 * index > 2 * s + split.chunkSize

SnappedEnd(s) ==
    LET candidateEnd == s + split.chunkSize
        newline == LastBefore(NL, candidateEnd)
        space == LastBefore(SP, candidateEnd)
    IN  IF PastMidpoint(newline, s) THEN newline + 1
        ELSE IF PastMidpoint(space, s) THEN space + 1
        ELSE candidateEnd

C33_BoundarySnapping ==
    \A k \in NonFinal :
        /\ split.chunks[k].endIndex = SnappedEnd(split.chunks[k].startIndex)
        /\ 2 * ChunkLen(split.chunks[k]) > split.chunkSize

(***************************************************************************)
(* C34.  Coverage without gaps: for every non-empty text and every         *)
(* overlap >= 0 the first chunk starts at 0, each later chunk starts at or *)
(* before the end of the chunk before it, and the last chunk ends at       *)
(* len(text), so that every character of the text lies in some chunk.      *)
(***************************************************************************)
Covers(chunk, index) == chunk.startIndex <= index /\ index < chunk.endIndex

C34_NoGaps ==
    /\ split.chunks # <<>> => split.chunks[1].startIndex = 0
    /\ \A k \in 1..(Len(split.chunks) - 1) :
          split.chunks[k + 1].startIndex <= split.chunks[k].endIndex
    /\ (SplitReturned /\ split.text # <<>>) =>
          /\ split.chunks # <<>>
          /\ split.chunks[Len(split.chunks)].endIndex = Len(split.text)
          /\ \A index \in 0..(Len(split.text) - 1) :
                \E k \in DOMAIN split.chunks : Covers(split.chunks[k], index)

\* A call without overlap returned three chunks or more, each starting where
\* the one before it ended.
C34_Witness ==
    /\ SplitReturned
    /\ split.overlap = 0
    /\ Len(split.chunks) >= 3
    /\ \A k \in 1..(Len(split.chunks) - 1) :
          split.chunks[k + 1].startIndex = split.chunks[k].endIndex
    /\ split.chunks[Len(split.chunks)].endIndex = Len(split.text)

(***************************************************************************)
(* C35.  A chunk whose embedding has another length than the query is not  *)
(* excluded from the candidates: findMostRelevantChunks raises no error,   *)
(* scores the chunk -1, and returns it whenever fewer than topK chunks     *)
(* precede it in the ranking.  Whatever the ranking, a chunk left out has  *)
(* topK chunks before it; when every score is a number, the chunks before  *)
(* it are those of a higher score and those of the same score that come    *)
(* earlier in the input.                                                   *)
(***************************************************************************)
Mismatched(scored) ==
    {c \in Range(scored) : Len(c.embedding) # Len(search.queryEmbedding)}

\* The chunks that the sort puts before c when no score is NaN.
Preceding(scored, c) ==
    {b \in Range(scored) :
        \/ Order(b, c) < 0
        \/ Order(b, c) = 0 /\ b.id < c.id}

C35_MismatchStaysCandidate ==
    SearchReturned =>
        LET scored == ScoredChunks
            ordered == \A b \in Range(scored) : b.score.kind # "nan"
        IN  \A c \in Mismatched(scored) :
                /\ c.score = MinusOne
                /\ \A k \in DOMAIN search.result :
                      search.result[k].id = c.id => search.result[k] = c
                /\ ~Returned(c) => Len(search.result) = search.topK
                /\ ordered =>
                      (Returned(c) <=> Cardinality(Preceding(scored, c)) < search.topK)

\* A chunk of another dimension was returned with the score -1, behind a
\* chunk of a higher score and ahead of a chunk that was left out.
C35_Witness ==
    /\ SearchReturned
    /\ LET scored == ScoredChunks
       IN  \E c \in Mismatched(scored) :
               /\ \E k \in DOMAIN search.result : k > 1 /\ search.result[k] = c
               /\ Greater(search.result[1].score, c.score)
               /\ \E b \in Range(scored) : ~Returned(b) /\ b.score = MinusOne

(***************************************************************************)
(* C36.  Top-K selection is exact over a full linear scan: every returned  *)
(* result is a distinct input chunk with its fields unchanged and its      *)
(* score equal to cosineSimilarity(query, chunk.embedding), and every      *)
(* input chunk that is not returned has a score less than or equal to the  *)
(* score of every returned chunk.                                          *)
(***************************************************************************)
\* x <= y, for numbers: false when either is NaN.
AtMost(x, y) == x.kind # "nan" /\ y.kind # "nan" /\ Rank(x) <= Rank(y)

C36_ExactTopK ==
    SearchReturned =>
        LET scored == ScoredChunks
        IN  /\ \A k \in DOMAIN search.result :
                  /\ search.result[k].id \in DOMAIN scored
                  /\ search.result[k] = scored[search.result[k].id]
            /\ \A j, k \in DOMAIN search.result :
                  search.result[j].id = search.result[k].id => j = k
            /\ \A c \in Range(scored) :
                  ~Returned(c) =>
                      \A k \in DOMAIN search.result : AtMost(c.score, search.result[k].score)

(***************************************************************************)
(* C37.  A query only ranks chunks of selected documents: every chunk      *)
(* passed to findMostRelevantChunks, and so every chunk of the context     *)
(* built for the answer, has the documentId of a document that was         *)
(* selected and of status 'ready' when the query was sent; chunks of       *)
(* unselected documents never appear.                                      *)
(***************************************************************************)
\* The document was listed, selected and ready when the message was sent.
SelectedAtQueryTime(docId) ==
    \E k \in DOMAIN chat.documents :
        /\ chat.documents[k].id = docId
        /\ chat.documents[k].isSelected
        /\ chat.documents[k].status = "ready"

C37_OnlySelectedDocuments ==
    chat.pc = "answered" =>
        /\ \A c \in chat.relevantChunks \cup chat.context :
              SelectedAtQueryTime(c.documentId)
        /\ chat.context \subseteq chat.relevantChunks

\* A message was answered from the chunks of the one selected document while
\* the chunks of a deselected document were in memory.
C37_Witness ==
    /\ chat.pc = "answered"
    /\ chat.searched
    /\ chat.context # {}
    /\ \E k \in DOMAIN chat.documents :
          /\ ~chat.documents[k].isSelected
          /\ \E e \in chat.allEmbeddings : e.documentId = chat.documents[k].id

(***************************************************************************)
(* C38.  Scheduler state is single-writer: the queue and the active count  *)
(* change only in the scheduler's own routines (queueDocument, and the     *)
(* handler of a received status message, each with its processNext), and   *)
(* every step of the worker (posting 'indexing', chunking, a batch of the  *)
(* embedding provider settling, posting a result) leaves the queue and the *)
(* active count as they are until the scheduler handles the message.       *)
(***************************************************************************)
\* A step that is the scheduler's handler taking the oldest message.
MessageHandled == mainInbox # <<>> /\ mainInbox' = Tail(mainInbox)

\* A step of the worker's handler: it starts on a document or goes on after
\* an await.
WorkerStep == jobs' # jobs

C38_SingleWriter ==
    [][/\ (queue' # queue \/ activeWorkers' # activeWorkers) =>
             (QueueDocumentCall \/ MessageHandled)
       /\ WorkerStep =>
             /\ UNCHANGED <<queue, activeWorkers>>
             /\ ~QueueDocumentCall
             /\ ~MessageHandled]_vars

\* The worker has posted the result of a document that the scheduler has not
\* handled yet: every slot is still taken and a document is still waiting.
C38_Witness ==
    /\ activeWorkers = MAX_CONCURRENT
    /\ queue # <<>>
    /\ \E d \in DocIds :
          /\ jobs[d].pc \in {"returned", "threw"}
          /\ \E k \in DOMAIN mainInbox :
                mainInbox[k].docId = d /\ mainInbox[k].status \in Terminal

=============================================================================
